---- MODULE Spec2Model ----
(***************************************************************************)
(* A model of foundryup, the Foundry toolchain manager                     *)
(* (src/src/install.rs, src/src/config.rs, src/src/main.rs).               *)
(*                                                                         *)
(* The state is the part of the file system the manager owns (the version  *)
(* store, binDir, the build tree of a local repository) together with the  *)
(* position and the locals of the invocation that is running.  One         *)
(* invocation runs at a time; the network, the file system and the         *)
(* subprocesses answer nondeterministically.                               *)
(*                                                                         *)
(* Optional values (Rust's Option) are sequences: <<>> is None and <<x>>   *)
(* is Some(x).  Strings whose prefix the code inspects (version strings)   *)
(* are sequences of tokens.  Files are records with a kind field.          *)
(***************************************************************************)
EXTENDS Integers, Sequences, FiniteSets, TLC

VARIABLES
    versions,     \* version store: <<repo, tag>> -> directory (bin -> file)
    binDir,       \* binDir: bin -> entry (none, regular file or symlink)
    localTarget,  \* <local path>/target/release: bin -> file
    cloned,       \* repositories already cloned under the root directory
    ensured,      \* versionsDir exists (ensure_dirs has run)
    pc,           \* position of the running invocation
    args,         \* the parsed request (cli::Cli)
    mode,         \* the install mode install::run chose
    key,          \* <<repo, tag>> of the version directory of this run
    hashes,       \* Option<HashMap>: <<>> or <<bundle>>
    archive,      \* the archive downloaded, or the binaries built, by this run
    idx,          \* loop index over the binaries
    result,       \* outcome of the invocation
    obs,          \* what this run did (history of the run, for the properties)
    bin0,         \* binDir when the invocation started
    versions0,    \* the version store when the invocation started
    prev,         \* the version the previous invocation activated, if it did
    runs,         \* invocations started so far
    faults,       \* file-system failures so far
    unset,        \* the binaries whose set_permissions in use_version failed
    upd,          \* the update check main::run spawns: its handle, its join, the exit
    zip,          \* an extract_zip call: the length of the archive, the entries
                  \* read so far, the loop index, what was written and skipped
    env,          \* the environment Config::new reads and the layout it returns
    store,        \* versionsDir as migrate_legacy_versions reads and moves it
    selfupd,      \* foundryup --update: the latest release, the check, the
                  \* download and the running executable
    pair          \* two source-build requests and the labels they get

\* what install::run and use_version never touch
aside == <<upd, zip, env, store, selfupd, pair>>

\* what neither the update check nor extract_zip touches
before == <<env, store, selfupd, pair>>

vars == <<versions, binDir, localTarget, cloned, ensured, pc, args, mode, key,
          hashes,
          archive, idx, result, obs, bin0, versions0, prev, runs, faults, unset,
          upd, zip, env, store, selfupd, pair>>

\* the invocations of a behaviour
MaxRuns == 3
\* the file-system calls that fail in a behaviour
MaxFaults == 1
\* the entries of a zip archive
MaxEntries == 2
\* the components of the name of a zip entry
MaxParts == 3
\* the tokens of a version string
MaxVersionLen == 2
\* the archive entries written before an extraction fails
MaxCut == 1

-----------------------------------------------------------------------------
(* Program constants: config.rs                                            *)

\* a repository id is <<owner, name>>, written owner/name
FOUNDRY_REPO == <<"foundry-rs", "foundry">>
TEMPO_REPO == <<"tempoxyz", "tempo-foundry">>

Tempo == <<"tempo">>

FoundryBins == <<"forge", "cast", "anvil", "chisel">>
TempoBins == <<"forge", "cast">>

\* config.bins(network): the binary names of the selected network
bins(network) == IF network = Tempo THEN TempoBins ELSE FoundryBins

\* config.repo(network): the repository of the selected network
repo(network) == IF network = Tempo THEN TEMPO_REPO ELSE FOUNDRY_REPO

AllBins == {FoundryBins[i] : i \in 1..Len(FoundryBins)}

SeqToSet(s) == {s[i] : i \in 1..Len(s)}

\* config.version_dir: versions_dir/<repo>/<version>
version_dir(network, version) == <<repo(network), version>>

-----------------------------------------------------------------------------
(* Files                                                                   *)

NoFile == [kind |-> "none"]
File(c, x) == [kind |-> "file", content |-> c, exec |-> x]
Symlink == [kind |-> "symlink"]    \* to <local path>/target/release/<bin>

EmptyDir == [b \in AllBins |-> NoFile]

\* content of the binary <name> published in the release <<repo, tag>>
Genuine(k, b) == [origin |-> "release", of |-> k, bin |-> b]
\* content of a file cut short by a failed write, or of a tampered binary
Corrupt == [origin |-> "corrupt", of |-> <<<<"", "">>, <<>>>>, bin |-> ""]
\* content of the binary <name> cargo builds in the tree <where>
Built(where, b) == [origin |-> "built", of |-> <<where, <<>>>>, bin |-> b]
LocalTree == <<"local", "path">>

\* compute_sha256: the digest of a file's content; different contents have
\* different digests, and a digest is not a content
compute_sha256(file) == [sha256 |-> file.content]

\* Path::exists follows symbolic links: a link whose target is missing does
\* not exist
exists(entry, target) ==
    \/ entry.kind = "file"
    \/ entry.kind = "symlink" /\ target.kind = "file"

\* the content a read of binDir/<name> gives
Resolve(entry, target) == IF entry.kind = "symlink" THEN target ELSE entry

-----------------------------------------------------------------------------
(* Version strings                                                         *)

IsAsciiDigit(tok) == tok \in {"0", "1", "2", "3", "4", "5", "6", "7", "8", "9"}

\* normalize_version that keeps what follows "nightly"
normalize_version_keep_suffix(version) ==
    IF Len(version) > 0 /\ IsAsciiDigit(Head(version)) THEN <<"v">> \o version
    ELSE version

\* normalize_version: install.rs
normalize_version(version) ==
    IF Len(version) > 0 /\ Head(version) = "nightly" THEN <<"nightly">>
    ELSE IF Len(version) > 0 /\ IsAsciiDigit(Head(version)) THEN <<"v">> \o version
    ELSE version

\* version_to_tag: install.rs
version_to_tag(version) == version

unwrap_or(opt, default) == IF opt = <<>> THEN default ELSE opt[1]

-----------------------------------------------------------------------------
(* Classification of the request: install::run                             *)

should_build(a) == a.branch # <<>> \/ a.pr # <<>> \/ a.commit # <<>>

\* the repository install::run works with
target_repo(a) == unwrap_or(a.repo, repo(a.network))

is_foundry_repo(a) == target_repo(a) = FOUNDRY_REPO

is_tempo(a) == a.network = Tempo

\* Classify with the local path looked at last
Classify_path_last(a) ==
    IF is_foundry_repo(a) /\ ~should_build(a) THEN "Prebuilt"
    ELSE IF is_tempo(a) /\ ~should_build(a) THEN "AlternatePrebuilt"
    ELSE IF a.path # <<>> THEN "LocalBuild"
    ELSE "SourceBuild"

\* Classify with the network looked at before the repository
Classify_network_first(a) ==
    IF a.path # <<>> THEN "LocalBuild"
    ELSE IF is_tempo(a) /\ ~should_build(a) THEN "AlternatePrebuilt"
    ELSE IF is_foundry_repo(a) /\ ~should_build(a) THEN "Prebuilt"
    ELSE "SourceBuild"

\* install::run: the install path taken for a request
Classify(a) ==
    IF a.path # <<>> THEN "LocalBuild"
    ELSE IF is_foundry_repo(a) /\ ~should_build(a) THEN "Prebuilt"
    ELSE IF is_tempo(a) /\ ~should_build(a) THEN "AlternatePrebuilt"
    ELSE "SourceBuild"

-----------------------------------------------------------------------------
(* The attestation artifact: parse_attestation_payload                     *)

\* serde_json::from_str / as_str / base64 decode / from_slice, one after the
\* other; the first that fails is the error of the whole parse
RECURSIVE insert_subject(_, _)
insert_subject(subject, map) ==
    IF subject = <<>> THEN map
    ELSE LET entry == Head(subject)
             next == IF entry.name # <<>> /\ entry.sha256 # <<>>
                     THEN [n \in DOMAIN map \cup {entry.name[1]} |->
                             IF n = entry.name[1] THEN entry.sha256[1] ELSE map[n]]
                     ELSE map
         IN insert_subject(Tail(subject), next)

EmptyMap == [n \in {} |-> 0]

\* parse_attestation_payload that takes a payload that is no JSON as a
\* statement without subject
parse_attestation_payload_lenient(artifact) ==
    IF ~artifact.json THEN [ok |-> FALSE]
    ELSE IF artifact.payload = <<>> THEN [ok |-> FALSE]
    ELSE IF ~artifact.payload[1].b64 THEN [ok |-> FALSE]
    ELSE [ok |-> TRUE,
          map |-> IF artifact.payload[1].inner.subject = <<>> THEN EmptyMap
                  ELSE insert_subject(artifact.payload[1].inner.subject[1], EmptyMap)]

parse_attestation_payload(artifact) ==
    IF ~artifact.json THEN [ok |-> FALSE]
    ELSE IF artifact.payload = <<>> THEN [ok |-> FALSE]
    ELSE IF ~artifact.payload[1].b64 THEN [ok |-> FALSE]
    ELSE IF ~artifact.payload[1].inner.json THEN [ok |-> FALSE]
    ELSE [ok |-> TRUE,
          map |-> IF artifact.payload[1].inner.subject = <<>> THEN EmptyMap
                  ELSE insert_subject(artifact.payload[1].inner.subject[1], EmptyMap)]

\* hashes.get(bin).or_else(|| hashes.get(bin_name)); bin_name is bin on unix
expected_hash(map, b) == IF b \in DOMAIN map THEN <<map[b]>> ELSE <<>>

\* all_match comparing the file itself, not its digest, with the expected digest
all_match_unhashed(dir, names, map) ==
    \A i \in 1..Len(names) :
        /\ expected_hash(map, names[i]) # <<>>
        /\ dir[names[i]].kind = "file"
        /\ [sha256 |-> dir[names[i]]] = expected_hash(map, names[i])[1]

\* all_match that passes over a binary the directory does not hold
all_match_present_only(dir, names, map) ==
    \A i \in 1..Len(names) :
        dir[names[i]].kind = "file"
        => /\ expected_hash(map, names[i]) # <<>>
           /\ compute_sha256(dir[names[i]]) = expected_hash(map, names[i])[1]

\* the loop of fetch_and_verify_attestation over the binaries: every binary
\* has an expected digest, exists and has that digest
all_match(dir, names, map) ==
    \A i \in 1..Len(names) :
        /\ expected_hash(map, names[i]) # <<>>
        /\ dir[names[i]].kind = "file"
        /\ compute_sha256(dir[names[i]]) = expected_hash(map, names[i])[1]

\* verify_failed that looks only at the binaries the bundle names
verify_failed_named_only(dir, names, map) ==
    \E i \in 1..Len(names) :
        /\ expected_hash(map, names[i]) # <<>>
        /\ \/ dir[names[i]].kind # "file"
           \/ compute_sha256(dir[names[i]]) # expected_hash(map, names[i])[1]

\* verify_failed that reports nothing for a binary that is not there
verify_failed_present_only(dir, names, map) ==
    \E i \in 1..Len(names) :
        \/ expected_hash(map, names[i]) = <<>>
        \/ /\ dir[names[i]].kind = "file"
           /\ compute_sha256(dir[names[i]]) # expected_hash(map, names[i])[1]

\* verify_installed_binaries: failed is set by a binary without expected
\* digest, a missing binary or a digest that differs
verify_failed(dir, names, map) ==
    \E i \in 1..Len(names) :
        \/ expected_hash(map, names[i]) = <<>>
        \/ dir[names[i]].kind # "file"
        \/ compute_sha256(dir[names[i]]) # expected_hash(map, names[i])[1]

-----------------------------------------------------------------------------
(* What the network serves                                                 *)

\* the binaries a release of a repository ships
ReleaseBins(r) == IF r = TEMPO_REPO THEN TempoBins ELSE FoundryBins

\* a release archive: "good" holds every binary of the release with its
\* executable bit, "missing" lacks the last binary and "tampered" holds a
\* first binary that is not the published one and has no executable bit
Archive(release, variant) ==
    LET names == ReleaseBins(release[1])
    IN [b \in AllBins |->
          IF b \notin SeqToSet(names) THEN NoFile
          ELSE IF variant = "missing" /\ b = names[Len(names)] THEN NoFile
          ELSE IF variant = "tampered" /\ b = names[1] THEN File(Corrupt, FALSE)
          ELSE File(Genuine(release, b), TRUE)]

SubjectEntry(release, b, variant) ==
    LET names == ReleaseBins(release[1])
    IN [name |-> <<b>>,
        sha256 |-> IF variant = "nodigest" /\ b = names[Len(names)] THEN <<>>
                   ELSE <<compute_sha256(File(IF variant = "wrong" /\ b = names[1]
                                              THEN Corrupt ELSE Genuine(release, b), TRUE))>>]

\* the subject list of the statement: "good" names every binary with the
\* digest of the published binary, "missing" lacks the last binary, "wrong"
\* carries another digest for the first binary, "nodigest" names the last
\* binary without a sha256 digest
Subject(release, variant) ==
    LET names == ReleaseBins(release[1])
        n == IF variant = "missing" THEN Len(names) - 1 ELSE Len(names)
    IN [i \in 1..n |-> SubjectEntry(release, names[i], variant)]

Envelope(subject) ==
    [json |-> TRUE,
     payload |-> <<[b64 |-> TRUE, inner |-> [json |-> TRUE, subject |-> <<subject>>]]>>]

\* the attestation artifacts a server can answer with
Artifacts(release) ==
    {[json |-> FALSE, payload |-> <<>>],
     [json |-> TRUE, payload |-> <<>>],
     [json |-> TRUE, payload |-> <<[b64 |-> FALSE, inner |-> [json |-> FALSE, subject |-> <<>>]]>>],
     [json |-> TRUE, payload |-> <<[b64 |-> TRUE, inner |-> [json |-> FALSE, subject |-> <<>>]]>>],
     [json |-> TRUE, payload |-> <<[b64 |-> TRUE, inner |-> [json |-> TRUE, subject |-> <<>>]]>>]}
    \cup {Envelope(Subject(release, v)) :
            v \in {"good", "missing", "wrong", "nodigest"}}

-----------------------------------------------------------------------------
(* Requests                                                                *)

BaseArgs ==
    [op |-> "install", path |-> <<>>, repo |-> <<>>, network |-> <<>>,
     branch |-> <<>>, pr |-> <<>>, commit |-> <<>>, version |-> <<>>,
     force |-> FALSE, platform |-> <<>>, use |-> <<>>]

\* Target::detect succeeds on a supported host unless the override is unknown
\* (Platform::from_str accepts these overrides)
target_detected(a) ==
    \/ a.platform = <<>>
    \/ a.platform[1] \in {"linux", "alpine", "darwin", "macos", "mac", "win32", "windows"}

\* nothing done yet: no download, no attestation request (lookup is the answer
\* to the lookup request, artifact the attestation artifact received,
\* attFailed a failed request of the two), no comparison, no activation, no
\* subprocess started and none that exited with a non-zero status, no warning
NoObs ==
    [downloads |-> 0, attFetch |-> FALSE, cacheCmp |-> FALSE, cacheHit |-> FALSE,
     verified |-> FALSE, activated |-> FALSE,
     lookup |-> "", attFailed |-> FALSE, artifact |-> <<>>,
     spawned |-> 0, procFailed |-> FALSE, warnings |-> {}, listed |-> <<>>]

NoKey == <<<<"", "">>, <<>>>>

\* the requests of the invocations
InstallRequests ==
    {[BaseArgs EXCEPT !.version = v, !.force = f] : v \in {<<>>}, f \in BOOLEAN}
    \cup {[BaseArgs EXCEPT !.platform = <<"beos">>],
          [BaseArgs EXCEPT !.network = Tempo],
          [BaseArgs EXCEPT !.branch = <<<<"feat", "/", "x">>>>],
          [BaseArgs EXCEPT !.path = <<"local">>]}

UseRequests ==
    {[BaseArgs EXCEPT !.op = "use", !.use = <<t>>] :
        t \in {<<"stable">>, <<"v", "1", ".5.0">>,
               <<"foundry-rs", "-branch-", "feat", "-", "x">>}}
    \cup {[BaseArgs EXCEPT !.op = "use", !.use = <<<<"nightly">>>>, !.network = Tempo]}

ListRequests == {[BaseArgs EXCEPT !.op = "list"]}

-----------------------------------------------------------------------------
(* The invocation: main::run                                               *)

NoVersions == [k \in {} |-> EmptyDir]

\* no update check spawned, nothing joined, the process still running
NoUpdate == [handle |-> "none", res |-> "", joins |-> 0, exit |-> "none"]

\* no extract_zip call
NoZip == [len |-> 0, entries |-> <<>>, i |-> 0, inside |-> {}, outside |-> {},
          written |-> {}, skipped |-> {}]

\* Config::new not called
NoEnv == [xdg |-> <<>>, home |-> <<>>, foundry_dir |-> <<>>, res |-> "none",
          config |-> <<>>]

\* no versionsDir looked at
\* (tree maps the paths below versionsDir that exist to "dir" or "file", the
\* path <<>> being versionsDir itself; start is the tree when the running
\* migration began, todo the entries read_dir has still to give, moved the
\* directories renamed, first the tree and the result of the first migration)
NoStore == [pc |-> "none", run |-> 0, tree |-> <<>>, start |-> <<>>, todo |-> {},
            moved |-> {}, res |-> "none", first |-> <<>>]

\* foundryup --update not asked for
\* (exe is <<>> while the executable is the running build, <<v>> once it is
\* replaced by release v)
NoSelfUpdate ==
    [pc |-> "none", current |-> "", response |-> [kind |-> "none", tag |-> <<>>],
     check |-> [kind |-> "pending", version |-> <<>>], downloaded |-> FALSE,
     exe |-> <<>>, res |-> "none"]

\* no two requests compared
NoPair == [first |-> BaseArgs, second |-> BaseArgs, labels |-> <<>>, dirs |-> <<>>]

Init ==
    /\ versions = NoVersions
    /\ binDir = EmptyDir
    /\ localTarget = EmptyDir
    /\ cloned = {}
    /\ ensured = FALSE
    /\ pc = "idle"
    /\ args = BaseArgs
    /\ mode = ""
    /\ key = NoKey
    /\ hashes = <<>>
    /\ archive = EmptyDir
    /\ idx = 0
    /\ result = "none"
    /\ obs = NoObs
    /\ bin0 = EmptyDir
    /\ versions0 = NoVersions
    /\ prev = <<>>
    /\ runs = 0
    /\ faults = 0
    /\ unset = {}
    /\ upd = NoUpdate
    /\ zip = NoZip
    /\ env = NoEnv
    /\ store = NoStore
    /\ selfupd = NoSelfUpdate
    /\ pair = NoPair

\* the invocation ends with an error
Fail(err) ==
    /\ pc' = "done"
    /\ result' = err

\* a file-system call fails
Fault ==
    /\ faults < MaxFaults
    /\ faults' = faults + 1

\* main::run, the dispatch on the request: --list goes to list, --use to
\* use_version, everything else to install::run
dispatch(requests) ==
    /\ pc = "idle"
    /\ runs' = runs + 1
    /\ \E a \in requests :
        /\ args' = a
        /\ IF a.op = "use"
           THEN /\ pc' = "use_version"
                /\ key' = version_dir(a.network, a.use[1])
           ELSE /\ pc' = IF a.op = "list" THEN "list" ELSE "install_run"
                /\ key' = NoKey
    /\ result' = "running"
    /\ bin0' = binDir
    /\ versions0' = versions
    /\ UNCHANGED <<versions, binDir, localTarget, cloned, ensured, mode, hashes, archive,
                   idx, obs, prev, faults, unset>>

\* an invocation of the primary operation, the update check left aside
main_run_of(requests) ==
    /\ runs < MaxRuns
    /\ dispatch(requests)
    /\ UNCHANGED aside

main_run == main_run_of(InstallRequests \cup UseRequests \cup ListRequests)

\* list: the names read_dir(versions_dir) gives, the owners of the
\* repositories installed
listed_versions == {k[1][1] : k \in DOMAIN versions}

\* listed_active that takes every entry of binDir, a link without target too
listed_active_entries == {b \in AllBins : binDir[b].kind # "none"}

\* list: the binaries of the primary network bin_path.exists() finds in binDir
listed_active == {b \in AllBins : exists(binDir[b], localTarget[b])}

\* install::list: with versionsDir its entries are read and printed, and
\* read_dir can fail; without it the binaries in binDir are printed
list ==
    /\ pc = "list"
    /\ IF ensured
       THEN \/ Fault /\ Fail("err_fs") /\ UNCHANGED obs
            \/ /\ pc' = "done"
               /\ result' = "ok"
               /\ obs' = [obs EXCEPT
                      !.listed = <<[from |-> "versionsDir", names |-> listed_versions]>>]
               /\ UNCHANGED faults
       ELSE /\ pc' = "done"
            /\ result' = "ok"
            /\ obs' = [obs EXCEPT
                   !.listed = <<[from |-> "binDir", names |-> listed_active]>>]
            /\ UNCHANGED faults
    /\ UNCHANGED <<versions, binDir, localTarget, cloned, ensured, args, mode, key,
                   hashes, archive, idx, bin0, versions0, prev, runs, unset>>
    /\ UNCHANGED aside

\* install::run: ensure_dirs, then the install path of the request
install_run ==
    /\ pc = "install_run"
    /\ ensured' = TRUE
    /\ mode' = Classify(args)
    /\ pc' = CASE Classify(args) = "LocalBuild" -> "install_from_local"
               [] Classify(args) = "Prebuilt" -> "install_prebuilt"
               [] Classify(args) = "AlternatePrebuilt" -> "install_tempo_prebuilt"
               [] OTHER -> "install_from_source"
    /\ UNCHANGED <<versions, binDir, localTarget, cloned, args, key, hashes,
                   archive, idx, result, obs, bin0, versions0, prev, runs, faults, unset>>
    /\ UNCHANGED aside

\* skip_attestation with the flag ignored
skip_attestation_never(a) == FALSE

\* install_prebuilt: the attestation is fetched unless --force is given
skip_attestation(a) == a.force

\* install_prebuilt up to the attestation: the version, the tag, the target;
\* --force skips fetch_and_verify_attestation
install_prebuilt ==
    /\ pc = "install_prebuilt"
    /\ LET version == normalize_version(unwrap_or(args.version, <<"stable">>))
           tag == version_to_tag(version)
       IN IF ~target_detected(args)
          THEN Fail("err_target") /\ UNCHANGED key
          ELSE /\ key' = version_dir(args.network, tag)
               /\ pc' = IF ~skip_attestation(args) THEN "attestation_lookup" ELSE "download"
               /\ UNCHANGED result
    /\ UNCHANGED <<versions, binDir, localTarget, cloned, ensured, args, mode, hashes,
                   archive, idx, obs, bin0, versions0, prev, runs, faults, unset>>
    /\ UNCHANGED aside

\* the release a prebuilt install downloads from
release ==
    IF mode = "AlternatePrebuilt" THEN <<TEMPO_REPO, key[2]>> ELSE <<FOUNDRY_REPO, key[2]>>

\* attestation_link that takes a first line with the not-found marker as a link
attestation_link_marker_blind(answer) ==
    IF answer \in {"fail", "empty"} THEN <<>> ELSE <<answer>>

\* fetch_and_verify_attestation, the match on the lookup request: a failed
\* request, an empty first line and a first line with the not-found marker
\* give no link
attestation_link(answer) ==
    IF answer = "fail" THEN <<>>
    ELSE IF answer = "empty" \/ answer = "Not Found" THEN <<>>
    ELSE <<answer>>

\* fetch_and_verify_attestation, the lookup file: without link the function
\* returns None and the install goes on to the download
attestation_lookup ==
    /\ pc = "attestation_lookup"
    /\ \E answer \in {"fail", "empty", "Not Found", "link"} :
        /\ pc' = IF attestation_link(answer) # <<>> THEN "attestation_artifact"
                 ELSE "download"
        /\ obs' = [obs EXCEPT !.attFetch = TRUE, !.lookup = answer,
                              !.attFailed = (answer = "fail")]
    /\ UNCHANGED <<versions, binDir, localTarget, cloned, ensured, args, mode, key,
                   hashes,
                   archive, idx, result, bin0, versions0, prev, runs, faults, unset>>
    /\ UNCHANGED aside

\* fetch_and_verify_attestation, the artifact: the download and the parse
\* both end the install when they fail
attestation_artifact ==
    /\ pc = "attestation_artifact"
    /\ \/ /\ Fail("err_network")
          /\ obs' = [obs EXCEPT !.attFailed = TRUE]
          /\ UNCHANGED hashes
       \/ \E artifact \in Artifacts(release) :
            LET parsed == parse_attestation_payload(artifact)
            IN /\ obs' = [obs EXCEPT !.artifact = <<artifact>>]
               /\ IF parsed.ok
                  THEN /\ hashes' = <<parsed.map>>
                       /\ pc' = "attestation_cache"
                       /\ UNCHANGED result
                  ELSE Fail("err_integrity") /\ UNCHANGED hashes
    /\ UNCHANGED <<versions, binDir, localTarget, cloned, ensured, args, mode, key,
                   archive, idx, bin0, versions0, prev, runs, faults, unset>>
    /\ UNCHANGED aside

\* fetch_and_verify_attestation, the installed version: when the version
\* directory exists and every binary matches, activate and exit
attestation_cache ==
    /\ pc = "attestation_cache"
    /\ IF key \in DOMAIN versions
       THEN /\ obs' = [obs EXCEPT !.cacheCmp = TRUE,
                         !.cacheHit = all_match(versions[key], bins(args.network), hashes[1])]
            /\ pc' = IF all_match(versions[key], bins(args.network), hashes[1])
                     THEN "use_version" ELSE "download"
       ELSE /\ obs' = obs
            /\ pc' = "download"
    /\ UNCHANGED <<versions, binDir, localTarget, cloned, ensured, args, mode, key,
                   hashes,
                   archive, idx, result, bin0, versions0, prev, runs, faults, unset>>
    /\ UNCHANGED aside

\* download_and_extract / download_and_extract_tempo, the download: the
\* request fails, or the archive the server holds arrives
download ==
    /\ pc = "download"
    /\ obs' = [obs EXCEPT !.downloads = obs.downloads + 1]
    /\ \/ Fail("err_network") /\ UNCHANGED archive
       \/ \E variant \in {"good", "missing", "tampered"} :
            /\ archive' = Archive(release, variant)
            /\ pc' = "extract"
            /\ UNCHANGED result
    /\ UNCHANGED <<versions, binDir, localTarget, cloned, ensured, args, mode, key,
                   hashes,
                   idx, bin0, versions0, prev, runs, faults, unset>>
    /\ UNCHANGED aside

\* the version directory, empty when create_dir_all has to create it
dir_of(k) == IF k \in DOMAIN versions THEN versions[k] ELSE EmptyDir

\* the version store with the directory of k replaced
with_dir(k, dir) == [j \in DOMAIN versions \cup {k} |-> IF j = k THEN dir ELSE versions[j]]

\* extract_tar_gz / extract_zip of the first n entries of the archive over the
\* directory
unpack(dir, names, n) ==
    [b \in AllBins |->
        IF \E i \in 1..n : names[i] = b /\ archive[b].kind = "file" THEN archive[b] ELSE dir[b]]

\* the loop after the extraction: every regular file gets mode 0755
chmod_all(dir) ==
    [b \in AllBins |-> IF dir[b].kind = "file" THEN File(dir[b].content, TRUE) ELSE dir[b]]

\* download_and_extract / download_and_extract_tempo, the extraction: the
\* directory is created, the archive unpacked into it and the files made
\* executable; a failure part way leaves what was written so far
extract ==
    /\ pc = "extract"
    /\ LET names == ReleaseBins(release[1])
       IN \/ \E n \in 1..MaxCut :
                /\ n < Len(names)
                /\ Fault
                /\ versions' = with_dir(key, unpack(dir_of(key), names, n))
                /\ Fail("err_fs")
          \/ /\ Fault
             /\ versions' = with_dir(key, unpack(dir_of(key), names, Len(names)))
             /\ Fail("err_fs")
          \/ /\ versions' = with_dir(key, chmod_all(unpack(dir_of(key), names, Len(names))))
             /\ pc' = IF mode = "Prebuilt" THEN "verify" ELSE "manpages"
             /\ UNCHANGED <<result, faults>>
    /\ UNCHANGED <<binDir, localTarget, cloned, ensured, args, mode, key, hashes, archive,
                   idx, obs, bin0, versions0, prev, runs, unset>>
    /\ UNCHANGED aside

\* install_prebuilt: verify_installed_binaries when a bundle was obtained
verify ==
    /\ pc = "verify"
    /\ IF hashes # <<>>
       THEN /\ obs' = [obs EXCEPT !.verified = TRUE]
            /\ IF verify_failed(versions[key], bins(args.network), hashes[1])
               THEN Fail("err_integrity")
               ELSE pc' = "manpages" /\ UNCHANGED result
       ELSE /\ pc' = "manpages"
            /\ UNCHANGED <<result, obs>>
    /\ UNCHANGED <<versions, binDir, localTarget, cloned, ensured, args, mode, key,
                   hashes,
                   archive, idx, bin0, versions0, prev, runs, faults, unset>>
    /\ UNCHANGED aside

\* manpages_error that returns the failure to install_prebuilt
manpages_error_fatal(outcome) ==
    IF outcome = "ok" THEN <<>>
    ELSE IF outcome = "download_failed" THEN <<"err_network">>
    ELSE <<"err_fs">>

\* download_manpages returns nothing: every failure is a warning and a return
manpages_error(outcome) == <<>>

\* download_manpages, called between the verification and the activation
manpages ==
    /\ pc = "manpages"
    /\ \E outcome \in {"ok", "tempdir_failed", "download_failed", "extract_failed"} :
        /\ obs' = [obs EXCEPT !.warnings = IF outcome = "ok" THEN obs.warnings
                                           ELSE obs.warnings \cup {"manpages"}]
        /\ IF manpages_error(outcome) # <<>>
           THEN Fail(manpages_error(outcome)[1])
           ELSE pc' = "use_version" /\ UNCHANGED result
    /\ UNCHANGED <<versions, binDir, localTarget, cloned, ensured, args, mode, key,
                   hashes,
                   archive, idx, bin0, versions0, prev, runs, faults, unset>>
    /\ UNCHANGED aside

\* install_tempo_prebuilt up to the download: the tag is the version string
\* as given
install_tempo_prebuilt ==
    /\ pc = "install_tempo_prebuilt"
    /\ LET tag == unwrap_or(args.version, <<"nightly">>)
       IN IF ~target_detected(args)
          THEN Fail("err_target") /\ UNCHANGED key
          ELSE /\ key' = version_dir(args.network, tag)
               /\ pc' = "download"
               /\ UNCHANGED result
    /\ UNCHANGED <<versions, binDir, localTarget, cloned, ensured, args, mode, hashes,
                   archive, idx, obs, bin0, versions0, prev, runs, faults, unset>>
    /\ UNCHANGED aside

-----------------------------------------------------------------------------
(* Activation: use_version                                                 *)

\* installed without the look at the directory
installed_always(k) == TRUE

\* version_dir.exists()
installed(k) == k \in DOMAIN versions

\* use_version, the check of the version directory
use_version ==
    /\ pc = "use_version"
    /\ obs' = [obs EXCEPT !.activated = TRUE]
    /\ IF ~installed(key)
       THEN Fail("err_not_installed") /\ UNCHANGED idx
       ELSE /\ pc' = "use_loop"
            /\ idx' = 1
            /\ UNCHANGED result
    /\ UNCHANGED <<versions, binDir, localTarget, cloned, ensured, args, mode, key,
                   hashes,
                   archive, bin0, versions0, prev, runs, faults, unset>>
    /\ UNCHANGED aside

\* dest_after that leaves an entry that exists as it is
dest_after_keep(dest, target, src, outcome) ==
    IF outcome = "remove_failed" THEN dest
    ELSE IF dest.kind # "none" THEN dest
    ELSE IF outcome = "copy_failed" THEN NoFile
    ELSE IF outcome = "chmod_failed" THEN File(src.content, src.exec)
    ELSE File(src.content, TRUE)

\* dest_after without set_permissions
dest_after_no_chmod(dest, target, src, outcome) ==
    IF outcome = "remove_failed" THEN dest
    ELSE IF ~exists(dest, target) /\ dest.kind = "symlink" THEN dest
    ELSE IF outcome = "copy_failed" THEN NoFile
    ELSE File(src.content, src.exec)

\* binDir/<name> after remove_file, fs::copy and set_permissions, as far as
\* the outcome lets them run.  fs::copy and set_permissions follow a symbolic
\* link that is still there, so they leave the entry as it is
dest_after(dest, target, src, outcome) ==
    IF outcome = "remove_failed" THEN dest
    ELSE IF ~exists(dest, target) /\ dest.kind = "symlink" THEN dest
    ELSE IF outcome = "copy_failed" THEN NoFile
    ELSE IF outcome = "chmod_failed" THEN File(src.content, src.exec)
    ELSE File(src.content, TRUE)

\* the file a symbolic link at binDir/<name> points to, after the same calls
target_after(dest, target, src, outcome) ==
    IF exists(dest, target) \/ dest.kind # "symlink" THEN target
    ELSE IF outcome = "copy_failed" THEN target
    ELSE IF outcome = "chmod_failed" THEN File(src.content, src.exec)
    ELSE File(src.content, TRUE)

\* use_version, one pass of the loop over the binaries: a binary the version
\* directory lacks is skipped; otherwise the entry is removed if it exists,
\* the binary copied and made executable, and a warning printed when
\* which::which finds the name elsewhere in PATH
use_loop ==
    /\ pc = "use_loop"
    /\ IF idx > Len(bins(<<>>))
       THEN /\ pc' = "done"
            /\ result' = "ok"
            /\ UNCHANGED <<binDir, localTarget, idx, faults, unset, obs>>
       ELSE LET b == bins(<<>>)[idx]
                src == dir_of(key)[b]
            IN IF ~exists(src, NoFile)
               THEN /\ idx' = idx + 1
                    /\ UNCHANGED <<binDir, localTarget, pc, result, faults, unset, obs>>
               ELSE \E outcome \in {"ok", "remove_failed", "copy_failed", "chmod_failed"},
                       shadowed \in BOOLEAN :
                      /\ outcome = "remove_failed" => exists(binDir[b], localTarget[b])
                      /\ shadowed => outcome = "ok"
                      /\ obs' = [obs EXCEPT !.warnings = IF shadowed
                                                         THEN obs.warnings \cup {"PATH"}
                                                         ELSE obs.warnings]
                      /\ binDir' = [binDir EXCEPT ![b] =
                                      dest_after(binDir[b], localTarget[b], src, outcome)]
                      /\ localTarget' = [localTarget EXCEPT ![b] =
                                      target_after(binDir[b], localTarget[b], src, outcome)]
                      /\ unset' = IF outcome = "chmod_failed" THEN unset \cup {b}
                                  ELSE IF outcome = "remove_failed" THEN unset
                                  ELSE unset \ {b}
                      /\ IF outcome = "ok"
                         THEN idx' = idx + 1 /\ UNCHANGED <<pc, result, faults>>
                         ELSE Fault /\ Fail("err_fs") /\ UNCHANGED idx
    /\ UNCHANGED <<versions, cloned, ensured, args, mode, key, hashes, archive, bin0,
                   versions0, prev, runs>>
    /\ UNCHANGED aside

-----------------------------------------------------------------------------
(* Builds: install_from_local, install_from_source                         *)

\* aborts that goes on after a subprocess that failed
aborts_never(success) == FALSE

\* if !status.success() { bail!(..) }: a subprocess that exits with a non-zero
\* status ends the install
aborts(success) == ~success

\* the binaries a cargo build of a tree produces
BuildOutputs == {AllBins, SeqToSet(TempoBins)}

\* install_from_local, cargo build --bins --release in the local path
install_from_local ==
    /\ pc = "install_from_local"
    /\ \E success \in BOOLEAN :
        /\ obs' = [obs EXCEPT !.spawned = obs.spawned + 1,
                              !.procFailed = obs.procFailed \/ ~success]
        /\ IF aborts(success)
           THEN Fail("err_build") /\ UNCHANGED <<localTarget, idx>>
           ELSE /\ \E produced \in (IF success THEN BuildOutputs ELSE {{}}) :
                     localTarget' = [b \in AllBins |->
                                       IF b \in produced
                                       THEN File(Built(LocalTree, b), TRUE)
                                       ELSE localTarget[b]]
                /\ pc' = "local_link"
                /\ idx' = 1
                /\ UNCHANGED result
    /\ UNCHANGED <<versions, binDir, cloned, ensured, args, mode, key, hashes,
                   archive, bin0, versions0, prev, runs, faults, unset>>
    /\ UNCHANGED aside

\* install_from_local, one pass of the loop over the binaries: the entry is
\* removed if it exists and a symbolic link to the built binary is made;
\* symlink fails when the entry is still there
local_link ==
    /\ pc = "local_link"
    /\ IF idx > Len(bins(args.network))
       THEN /\ pc' = "done"
            /\ result' = "ok"
            /\ UNCHANGED <<binDir, idx, faults, unset>>
       ELSE LET b == bins(args.network)[idx]
            IN \/ /\ exists(binDir[b], localTarget[b])
                  /\ Fault
                  /\ Fail("err_fs")
                  /\ UNCHANGED <<binDir, idx, unset>>
               \/ /\ ~exists(binDir[b], localTarget[b]) /\ binDir[b].kind # "none"
                  /\ Fail("err_fs")
                  /\ UNCHANGED <<binDir, idx, faults, unset>>
               \/ /\ exists(binDir[b], localTarget[b]) \/ binDir[b].kind = "none"
                  /\ binDir' = [binDir EXCEPT ![b] = Symlink]
                  /\ unset' = unset \ {b}
                  /\ idx' = idx + 1
                  /\ UNCHANGED <<pc, result, faults>>
    /\ UNCHANGED <<versions, localTarget, cloned, ensured, args, mode, key, hashes, archive,
                   obs, bin0, versions0, prev, runs>>
    /\ UNCHANGED aside

\* branch.replace('/', "-")
RECURSIVE replace_slash(_)
replace_slash(branch) ==
    IF branch = <<>> THEN <<>>
    ELSE <<IF Head(branch) = "/" THEN "-" ELSE Head(branch)>> \o replace_slash(Tail(branch))

\* install_from_source: the branch fetched and checked out
source_branch(a) ==
    IF a.pr # <<>> THEN <<"refs", "/", "pull", "/", a.pr[1], "/", "head">>
    ELSE unwrap_or(a.branch, <<"master">>)

\* install_from_source: the version label, from the author and the commit,
\* else the pull request, else the branch
source_version(a) ==
    LET author == target_repo(a)[1]
    IN IF a.commit # <<>> THEN <<author, "-commit-", a.commit[1]>>
       ELSE IF a.pr # <<>> THEN <<author, "-pr-", a.pr[1]>>
       ELSE <<author, "-branch-">> \o replace_slash(source_branch(a))

\* install_from_source, the git and cargo subprocesses one after the other:
\* clone (when the repository is not there), fetch, checkout, checkout of the
\* commit (when one is given), build.  A subprocess that fails ends the install
SourceSteps == <<"git_clone", "git_fetch", "git_checkout", "git_checkout_commit", "cargo_build">>

skipped(step) ==
    \/ step = "git_clone" /\ target_repo(args) \in cloned
    \/ step = "git_checkout_commit" /\ args.commit = <<>>

install_from_source ==
    /\ pc = "install_from_source"
    /\ pc' = "source_step"
    /\ idx' = 1
    /\ UNCHANGED <<versions, binDir, localTarget, cloned, ensured, args, mode, key,
                   hashes,
                   archive, result, obs, bin0, versions0, prev, runs, faults, unset>>
    /\ UNCHANGED aside

source_step ==
    /\ pc = "source_step"
    /\ LET step == SourceSteps[idx]
       IN IF skipped(step)
          THEN /\ idx' = idx + 1
               /\ UNCHANGED <<pc, result, cloned, archive, key, obs>>
          ELSE \E success \in BOOLEAN :
               /\ obs' = [obs EXCEPT !.spawned = obs.spawned + 1,
                                     !.procFailed = obs.procFailed \/ ~success]
               /\ IF aborts(success)
                  THEN /\ Fail("err_build")
                       /\ UNCHANGED <<idx, cloned, archive, key>>
                  ELSE IF step # "cargo_build"
                  THEN /\ idx' = idx + 1
                       /\ cloned' = IF step = "git_clone" /\ success
                                    THEN cloned \cup {target_repo(args)}
                                    ELSE cloned
                       /\ UNCHANGED <<pc, result, archive, key>>
                  ELSE /\ \E produced \in (IF success THEN BuildOutputs ELSE {{}}) :
                            archive' = [b \in AllBins |->
                                          IF b \in produced
                                          THEN File(Built(target_repo(args), b), TRUE)
                                          ELSE NoFile]
                       /\ key' = version_dir(args.network, source_version(args))
                       /\ pc' = "source_move"
                       /\ UNCHANGED <<idx, result, cloned>>
    /\ UNCHANGED <<versions, binDir, localTarget, ensured, args, mode, hashes,
                   bin0, versions0, prev, runs, faults, unset>>
    /\ UNCHANGED aside

\* install_from_source after the build: the version directory is created and
\* every binary that was built is moved into it
source_move ==
    /\ pc = "source_move"
    /\ versions' = with_dir(key, [b \in AllBins |->
                        IF b \in SeqToSet(bins(args.network)) /\ archive[b].kind = "file"
                        THEN archive[b] ELSE dir_of(key)[b]])
    /\ pc' = "use_version"
    /\ UNCHANGED <<binDir, localTarget, cloned, ensured, args, mode, key, hashes, archive,
                   idx, result, obs, bin0, versions0, prev, runs, faults, unset>>
    /\ UNCHANGED aside

\* the invocation returns (or exits); the next one finds the file system it
\* left
finish ==
    /\ pc = "done"
    /\ pc' = "idle"
    /\ prev' = IF obs.activated /\ result = "ok" THEN <<key>> ELSE <<>>
    /\ args' = BaseArgs
    /\ mode' = ""
    /\ key' = NoKey
    /\ hashes' = <<>>
    /\ archive' = EmptyDir
    /\ idx' = 0
    /\ result' = "none"
    /\ obs' = NoObs
    /\ bin0' = EmptyDir
    /\ versions0' = NoVersions
    /\ UNCHANGED <<versions, binDir, localTarget, cloned, ensured, runs, faults, unset>>
    /\ UNCHANGED aside

Next ==
    \/ main_run
    \/ install_run
    \/ install_prebuilt
    \/ attestation_lookup
    \/ attestation_artifact
    \/ attestation_cache
    \/ download
    \/ extract
    \/ verify
    \/ manpages
    \/ install_tempo_prebuilt
    \/ install_from_local
    \/ local_link
    \/ install_from_source
    \/ source_step
    \/ source_move
    \/ use_version
    \/ use_loop
    \/ list
    \/ finish

Spec == Init /\ [][Next]_vars

-----------------------------------------------------------------------------
(* The classification of every request                                     *)

OtherRepo == <<"someone", "fork">>

\* every combination of the overrides install::run looks at
ClassifyRequests ==
    {[BaseArgs EXCEPT !.path = p, !.repo = r, !.network = n, !.branch = b,
                      !.pr = q, !.commit = c] :
        p \in {<<>>, <<"local">>},
        r \in {<<>>, <<FOUNDRY_REPO>>, <<TEMPO_REPO>>, <<OtherRepo>>},
        n \in {<<>>, Tempo},
        b \in {<<>>, <<<<"feat", "/", "x">>>>},
        q \in {<<>>, <<"7">>},
        c \in {<<>>, <<"abc123">>}}

InitClassify ==
    /\ versions = NoVersions
    /\ binDir = EmptyDir
    /\ localTarget = EmptyDir
    /\ cloned = {}
    /\ ensured = FALSE
    /\ pc = "install_run"
    /\ args \in ClassifyRequests
    /\ mode = ""
    /\ key = NoKey
    /\ hashes = <<>>
    /\ archive = EmptyDir
    /\ idx = 0
    /\ result = "running"
    /\ obs = NoObs
    /\ bin0 = EmptyDir
    /\ versions0 = NoVersions
    /\ prev = <<>>
    /\ runs = 1
    /\ faults = 0
    /\ unset = {}
    /\ upd = NoUpdate
    /\ zip = NoZip
    /\ env = NoEnv
    /\ store = NoStore
    /\ selfupd = NoSelfUpdate
    /\ pair = NoPair

NextClassify == install_run

SpecClassify == InitClassify /\ [][NextClassify]_vars

\* C9: the install mode is the first rule that matches, in the order local
\* path, default repository without branch/PR/commit, alternate network
\* without branch/PR/commit, source build; every request gets one mode
C9_FirstMatchingRule ==
    pc # "install_run" =>
        LET build == args.branch # <<>> \/ args.pr # <<>> \/ args.commit # <<>>
            default == \/ args.repo = <<FOUNDRY_REPO>>
                       \/ args.repo = <<>> /\ args.network = <<>>
            rule == IF args.path # <<>> THEN 1
                    ELSE IF ~build /\ default THEN 2
                    ELSE IF ~build /\ args.network = <<"tempo">> THEN 3
                    ELSE 4
        IN /\ mode \in {"LocalBuild", "Prebuilt", "AlternatePrebuilt", "SourceBuild"}
           /\ mode = "LocalBuild" <=> rule = 1
           /\ mode = "Prebuilt" <=> rule = 2
           /\ mode = "AlternatePrebuilt" <=> rule = 3
           /\ mode = "SourceBuild" <=> rule = 4
           /\ pc = CASE rule = 1 -> "install_from_local"
                    [] rule = 2 -> "install_prebuilt"
                    [] rule = 3 -> "install_tempo_prebuilt"
                    [] OTHER -> "install_from_source"

\* a request with a local path and a branch, a repository and the alternate
\* network as well has been classified
C9_Witness ==
    /\ pc = "install_from_local"
    /\ args.branch # <<>>
    /\ args.repo = <<FOUNDRY_REPO>>
    /\ args.network = Tempo

\* C10 as stated: with the alternate network selected and no branch, PR or
\* commit (and no local path), the request is AlternatePrebuilt whatever the
\* repository override is
C10_AlternateForEveryOverride ==
    (/\ pc # "install_run"
     /\ args.path = <<>>
     /\ args.network = <<"tempo">>
     /\ args.branch = <<>> /\ args.pr = <<>> /\ args.commit = <<>>)
    => mode = "AlternatePrebuilt"

\* C10 amended: with the alternate network selected and no branch, PR or
\* commit (and no local path), the request is AlternatePrebuilt against the
\* alternate repository for every repository override except one naming the
\* primary network's repository, which makes it Prebuilt
C10_AlternateUnlessPrimaryOverride ==
    (/\ pc # "install_run"
     /\ args.path = <<>>
     /\ args.network = <<"tempo">>
     /\ args.branch = <<>> /\ args.pr = <<>> /\ args.commit = <<>>)
    => IF args.repo = <<FOUNDRY_REPO>>
       THEN mode = "Prebuilt" /\ pc = "install_prebuilt"
       ELSE /\ mode = "AlternatePrebuilt"
            /\ pc = "install_tempo_prebuilt"
            /\ release[1] = TEMPO_REPO

\* the alternate network with an override naming another repository has
\* been classified
C10_Witness ==
    /\ pc = "install_tempo_prebuilt"
    /\ args.network = Tempo
    /\ args.repo = <<OtherRepo>>

-----------------------------------------------------------------------------
(* Installation and activation                                             *)

\* the file a read of binDir/<name> gives
Active(b) == Resolve(binDir[b], localTarget[b])

\* the version directory of the run holds the binary
Ships(b) == key \in DOMAIN versions /\ versions[key][b].kind = "file"

\* some expected binary is missing from the version directory, has no digest
\* in the bundle, or has a digest that is not the bundle's
BadBinary ==
    \E b \in SeqToSet(bins(args.network)) :
        \/ versions[key][b].kind # "file"
        \/ b \notin DOMAIN hashes[1]
        \/ hashes[1][b] # [sha256 |-> versions[key][b].content]

\* C1: when a prebuilt install obtained a bundle and, after the extraction,
\* an expected binary is missing, has no digest in the bundle or has another
\* digest, the install fails, use_version is not called and binDir is what
\* it was before the run
C1_FailedVerificationNeverActivates ==
    (mode = "Prebuilt" /\ obs.verified /\ BadBinary)
    => /\ pc = "done"
       /\ result = "err_integrity"
       /\ ~obs.activated
       /\ binDir = bin0

\* a verification failed in a run that found binaries in binDir
C1_Witness ==
    /\ pc = "done"
    /\ result = "err_integrity"
    /\ obs.verified
    /\ \E b \in AllBins : bin0[b].kind = "file"

\* the version of the run was installed before the run, a bundle was
\* obtained and every expected binary of the directory has the bundle's digest
InstalledAndMatching ==
    /\ mode = "Prebuilt"
    /\ hashes # <<>>
    /\ key \in DOMAIN versions0
    /\ \A b \in SeqToSet(bins(args.network)) :
        /\ versions0[key][b].kind = "file"
        /\ b \in DOMAIN hashes[1]
        /\ hashes[1][b] = [sha256 |-> versions0[key][b].content]

C3_ForceNeverVerifies ==
    (mode = "Prebuilt" /\ args.force)
    => /\ ~obs.attFetch /\ ~obs.cacheCmp /\ ~obs.cacheHit /\ ~obs.verified
       /\ hashes = <<>>
       /\ pc \notin {"attestation_lookup", "attestation_artifact", "attestation_cache"}
       /\ result \in {"running", "ok", "err_target", "err_network", "err_fs"}
       /\ obs.activated => obs.downloads = 1
       /\ pc = "done" /\ result = "ok" =>
            /\ obs.activated
            /\ obs.downloads = 1
            /\ \A b \in AllBins :
                 Ships(b) => Active(b) = File(versions[key][b].content, TRUE)

\* a forced install activated a binary that is not the published one
C3_Witness ==
    /\ pc = "done"
    /\ result = "ok"
    /\ mode = "Prebuilt"
    /\ args.force
    /\ \E b \in AllBins : binDir[b].kind = "file" /\ binDir[b].content = Corrupt

\* an invocation that called use_version has ended successfully
Activated == pc = "done" /\ result = "ok" /\ obs.activated

\* C4 as stated: after a successful install or use of a version, every
\* binary name has in binDir a copy of the version's file of that name, and
\* none is left over from another version
C4_BinDirMatchesVersion ==
    Activated =>
        \A b \in AllBins :
            /\ Ships(b) =>
                 Active(b).kind = "file" /\ Active(b).content = versions[key][b].content
            /\ binDir[b].kind = "file" =>
                 Ships(b) /\ binDir[b].content = versions[key][b].content

\* C4 amended: after a successful install or use of a version, every binary
\* the version directory holds is, read through binDir, a copy of the
\* version's file; a name the directory lacks is skipped, so its binDir entry
\* is what it was before the run
C4_BinDirMatchesShippedBinaries ==
    Activated =>
        \A b \in AllBins :
            IF Ships(b) THEN Active(b).kind = "file" /\ Active(b).content = versions[key][b].content
            ELSE binDir[b] = bin0[b]

\* a version that lacks a binary was activated over the binary of another
\* version, and a binary it holds replaced the other version's
C4_Witness ==
    /\ Activated
    /\ \E b \in AllBins : ~Ships(b) /\ binDir[b].kind = "file"
    /\ \E b \in AllBins :
        /\ Ships(b)
        /\ bin0[b].kind = "file"
        /\ bin0[b].content # versions[key][b].content
        /\ binDir[b].content = versions[key][b].content

\* C5: when use_version has returned, with or without an error, binDir holds
\* the version's copy of every binary the version directory holds, or is what
\* it was before the call
C5_ActivationAtomic ==
    (pc = "done" /\ obs.activated)
    => \/ binDir = bin0
       \/ \A b \in AllBins :
            Ships(b) => binDir[b] = File(versions[key][b].content, TRUE)

C7_NotInstalled ==
    (obs.activated /\ key \notin DOMAIN versions)
    => /\ pc = "done"
       /\ result = "err_not_installed"
       /\ binDir = bin0
       /\ versions = versions0

\* a use of a version that is not installed failed while binDir and the
\* version store hold other versions
C7_Witness ==
    /\ pc = "done"
    /\ result = "err_not_installed"
    /\ \E b \in AllBins : binDir[b].kind = "file"
    /\ versions # NoVersions

\* C8: a successful use of the version the previous invocation ended by
\* activating leaves binDir as that activation left it
C8_ActivationIdempotent ==
    (Activated /\ args.op = "use" /\ prev = <<key>>) => binDir = bin0

-----------------------------------------------------------------------------
(* The attestation fetch                                                   *)

\* the lookup request of a prebuilt install failed, or its body is empty,
\* or its first line carries the not-found marker
LookupAbsent == mode = "Prebuilt" /\ obs.lookup \in {"fail", "empty", "Not Found"}

\* C11: when the attestation lookup request fails, or its body is empty, or
\* its first line carries the not-found marker, no artifact is requested and
\* no bundle obtained; the install goes on unverified to the download, the
\* extraction and the activation, never ends with an integrity error, ends
\* with an error only when the download or a file-system call fails, and
\* when it ends successfully the archive was downloaded and the version
\* activated
C11_AbsentAttestationDegrades ==
    LookupAbsent
    => /\ hashes = <<>>
       /\ obs.artifact = <<>>
       /\ ~obs.cacheCmp /\ ~obs.cacheHit /\ ~obs.verified
       /\ pc \in {"download", "extract", "verify", "manpages", "use_version",
                  "use_loop", "done"}
       /\ result \in {"running", "ok", "err_network", "err_fs"}
       /\ result = "err_network" => obs.downloads = 1 /\ ~obs.activated
       /\ obs.activated => obs.downloads = 1
       /\ pc = "done" /\ result = "ok" =>
            /\ obs.activated
            /\ obs.downloads = 1
            /\ \A b \in AllBins :
                 Ships(b) => Active(b) = File(versions[key][b].content, TRUE)

\* an install whose lookup carried the not-found marker ended successfully
\* with a binary that is not the published one
C11_Witness ==
    /\ pc = "done"
    /\ result = "ok"
    /\ mode = "Prebuilt"
    /\ obs.lookup = "Not Found"
    /\ obs.downloads = 1
    /\ \E b \in AllBins : binDir[b].kind = "file" /\ binDir[b].content = Corrupt

\* C12: a failed request of the attestation fetch, the lookup file or the
\* artifact, never ends the install: no install ends with a network error
\* before the download of the archive
C12_AttestationRequestNeverFatal ==
    (mode = "Prebuilt" /\ obs.attFailed)
    => ~(pc = "done" /\ result = "err_network" /\ obs.downloads = 0)

\* the artifact received is malformed: the outer JSON does not parse, the
\* payload field is missing, the payload is no base64, or the decoded payload
\* is no JSON
Malformed(artifact) ==
    \/ ~artifact.json
    \/ artifact.payload = <<>>
    \/ artifact.payload # <<>> /\ ~artifact.payload[1].b64
    \/ artifact.payload # <<>> /\ ~artifact.payload[1].inner.json

\* C13: when the attestation artifact is malformed at any stage the install
\* ends with an integrity error, no bundle is obtained, no archive is
\* downloaded, nothing is activated and binDir and the version store are
\* what they were before the run
C13_MalformedAttestationFails ==
    (obs.artifact # <<>> /\ Malformed(obs.artifact[1]))
    => /\ pc = "done"
       /\ result = "err_integrity"
       /\ hashes = <<>>
       /\ obs.downloads = 0
       /\ ~obs.activated
       /\ binDir = bin0
       /\ versions = versions0

\* a decoded payload that is no JSON ended an install over an installed and
\* active version
C13_Witness ==
    /\ pc = "done"
    /\ result = "err_integrity"
    /\ obs.artifact # <<>>
    /\ obs.artifact[1].json
    /\ obs.artifact[1].payload # <<>>
    /\ obs.artifact[1].payload[1].b64
    /\ ~obs.artifact[1].payload[1].inner.json
    /\ versions # NoVersions
    /\ \E b \in AllBins : binDir[b].kind = "file"

\* the subject list of the statement that was parsed
ServedSubject ==
    IF obs.artifact[1].payload[1].inner.subject = <<>> THEN <<>>
    ELSE obs.artifact[1].payload[1].inner.subject[1]

\* the entries of the subject list that carry a name and a sha256 digest
Pairs(subject) ==
    {i \in 1..Len(subject) : subject[i].name # <<>> /\ subject[i].sha256 # <<>>}

\* the subject list names the binary with a digest
Named(subject, b) == \E i \in Pairs(subject) : subject[i].name[1] = b

\* C14: the bundle maps exactly the names of the subject list that carry a
\* sha256 digest, each to its digest, and when the verification runs with a
\* bundle that lacks an expected binary the install ends with an integrity
\* error without activating anything
C14_BundleFromSubject ==
    hashes # <<>>
    => /\ DOMAIN hashes[1] = {ServedSubject[i].name[1] : i \in Pairs(ServedSubject)}
       /\ \A i \in Pairs(ServedSubject) :
            hashes[1][ServedSubject[i].name[1]] = ServedSubject[i].sha256[1]
       /\ (obs.verified /\ \E b \in SeqToSet(bins(args.network)) : ~Named(ServedSubject, b))
          => /\ pc = "done"
             /\ result = "err_integrity"
             /\ ~obs.activated
             /\ binDir = bin0

\* the verification failed for a binary the subject list does not name while
\* every binary it names is in the version directory with the digest listed
C14_Witness ==
    /\ pc = "done"
    /\ result = "err_integrity"
    /\ obs.verified
    /\ hashes # <<>>
    /\ \E b \in SeqToSet(bins(args.network)) : ~Named(ServedSubject, b)
    /\ \A b \in SeqToSet(bins(args.network)) :
        Named(ServedSubject, b)
        => /\ versions[key][b].kind = "file"
           /\ compute_sha256(versions[key][b]) = hashes[1][b]

-----------------------------------------------------------------------------
(* Zip extraction: download::extract_zip                                   *)

\* the components of the name of a zip entry
RECURSIVE PathsOfLen(_)
PathsOfLen(n) ==
    IF n = 0 THEN {<<>>}
    ELSE {Append(q, c) : q \in PathsOfLen(n - 1), c \in {"..", "forge"}}

\* relative names of every length, absolute names of one component
ZipNames ==
    {[abs |-> FALSE, parts |-> q] : q \in UNION {PathsOfLen(n) : n \in 1..MaxParts}}
    \cup {[abs |-> TRUE, parts |-> q] : q \in PathsOfLen(1)}

ZipEntries == {[name |-> n, dir |-> d] : n \in ZipNames, d \in BOOLEAN}

\* the walk of enclosed_name over the components: a parent component below
\* depth 0 gives None
RECURSIVE enclosed_walk(_, _)
enclosed_walk(parts, depth) ==
    IF parts = <<>> THEN TRUE
    ELSE IF Head(parts) = ".." THEN depth > 0 /\ enclosed_walk(Tail(parts), depth - 1)
    ELSE enclosed_walk(Tail(parts), depth + 1)

\* enclosed_name that gives every name back
enclosed_name_any(name) == <<name>>

\* file.enclosed_name(): None for a name with a root component and for one
\* that climbs above its start
enclosed_name(name) ==
    IF name.abs THEN <<>>
    ELSE IF enclosed_walk(name.parts, 0) THEN <<name>>
    ELSE <<>>

\* a place of the file system seen from destDir: absolute, or up levels above
\* destDir and then down; the place a component leads to
path_step(loc, c) ==
    IF c = ".."
    THEN IF loc.down # <<>> THEN [loc EXCEPT !.down = SubSeq(loc.down, 1, Len(loc.down) - 1)]
         ELSE IF loc.abs THEN loc
         ELSE [loc EXCEPT !.up = loc.up + 1]
    ELSE [loc EXCEPT !.down = Append(loc.down, c)]

RECURSIVE path_walk(_, _)
path_walk(loc, parts) ==
    IF parts = <<>> THEN loc ELSE path_walk(path_step(loc, Head(parts)), Tail(parts))

\* dest_dir.join(path), resolved: an absolute path replaces dest_dir
outpath(name) ==
    path_walk([abs |-> name.abs, up |-> 0, down |-> <<>>], name.parts)

\* the place is destDir or below it
InsideDest(loc) == ~loc.abs /\ loc.up = 0

\* File::open, ZipArchive::new, create_dir_all; the archive holds up to
\* MaxEntries entries
extract_zip ==
    /\ pc = "extract_zip"
    /\ \/ Fault /\ Fail("err_fs") /\ UNCHANGED zip
       \/ /\ \E n \in 1..MaxEntries : zip' = [zip EXCEPT !.i = 1, !.len = n]
          /\ pc' = "extract_zip_entry"
          /\ UNCHANGED <<result, faults>>
    /\ UNCHANGED <<versions, binDir, localTarget, cloned, ensured, args, mode, key,
                   hashes,
                   archive, idx, obs, bin0, versions0, prev, runs, unset, upd>>
    /\ UNCHANGED before

\* one pass of the loop of extract_zip over the entry archive.by_index gives:
\* an entry without enclosed name is skipped, a directory is created, a file
\* is created and written; a failed file-system call ends the extraction
extract_zip_entry ==
    /\ pc = "extract_zip_entry"
    /\ IF zip.i > zip.len
       THEN /\ pc' = "done"
            /\ result' = "ok"
            /\ UNCHANGED <<zip, faults>>
       ELSE \E entry \in ZipEntries :
            LET enclosed == enclosed_name(entry.name)
                read == [zip EXCEPT !.entries = Append(zip.entries, entry)]
            IN IF enclosed = <<>>
               THEN /\ zip' = [read EXCEPT !.i = zip.i + 1,
                                           !.skipped = zip.skipped \cup {zip.i}]
                    /\ UNCHANGED <<pc, result, faults>>
               ELSE \/ Fault /\ Fail("err_fs") /\ zip' = read
                    \/ /\ zip' = [read EXCEPT
                             !.i = zip.i + 1,
                             !.written = zip.written \cup {zip.i},
                             !.inside = IF InsideDest(outpath(enclosed[1]))
                                        THEN zip.inside \cup {outpath(enclosed[1])}
                                        ELSE zip.inside,
                             !.outside = IF InsideDest(outpath(enclosed[1]))
                                         THEN zip.outside
                                         ELSE zip.outside \cup {outpath(enclosed[1])}]
                       /\ UNCHANGED <<pc, result, faults>>
    /\ UNCHANGED <<versions, binDir, localTarget, cloned, ensured, args, mode, key,
                   hashes,
                   archive, idx, obs, bin0, versions0, prev, runs, unset, upd>>
    /\ UNCHANGED before

InitZip ==
    /\ versions = NoVersions
    /\ binDir = EmptyDir
    /\ localTarget = EmptyDir
    /\ cloned = {}
    /\ ensured = TRUE
    /\ pc = "extract_zip"
    /\ args = BaseArgs
    /\ mode = ""
    /\ key = NoKey
    /\ hashes = <<>>
    /\ archive = EmptyDir
    /\ idx = 0
    /\ result = "running"
    /\ obs = NoObs
    /\ bin0 = EmptyDir
    /\ versions0 = NoVersions
    /\ prev = <<>>
    /\ runs = 1
    /\ faults = 0
    /\ unset = {}
    /\ upd = NoUpdate
    /\ zip = NoZip
    /\ env = NoEnv
    /\ store = NoStore
    /\ selfupd = NoSelfUpdate
    /\ pair = NoPair

NextZip ==
    \/ extract_zip
    \/ extract_zip_entry

SpecZip == InitZip /\ [][NextZip]_vars

\* the name of the entry leads outside destDir: it is absolute, or its
\* components, followed from destDir, end above it
Escapes(name) == ~InsideDest(outpath(name))

\* C15: extract_zip writes nothing outside destDir: an entry whose name leads
\* outside is skipped and never written, every other entry the loop has
\* passed is written below destDir, and an extraction that ends successfully
\* has passed every entry
C15_ZipStaysInside ==
    /\ zip.outside = {}
    /\ \A j \in 1..Len(zip.entries) :
        /\ j \in zip.written => ~Escapes(zip.entries[j].name)
        /\ (j < zip.i /\ Escapes(zip.entries[j].name)) => j \in zip.skipped
        /\ (j < zip.i /\ ~Escapes(zip.entries[j].name))
           => j \in zip.written /\ outpath(zip.entries[j].name) \in zip.inside
    /\ (pc = "done" /\ result = "ok")
       => zip.i = zip.len + 1 /\ Len(zip.entries) = zip.len

\* an extraction ended successfully that skipped a relative traversal and
\* wrote the entry after it
C15_Witness ==
    /\ pc = "done"
    /\ result = "ok"
    /\ \E j \in zip.skipped :
        /\ ~zip.entries[j].name.abs
        /\ j + 1 \in zip.written

-----------------------------------------------------------------------------
(* One invocation with its update check: main::run                         *)

\* the stable release, installed and active
StableKey == version_dir(<<>>, <<"stable">>)
StableDir == chmod_all(Archive(<<FOUNDRY_REPO, <<"stable">>>>, "good"))

\* main::run: the update check is spawned, then the request dispatched
main_run_update ==
    /\ runs = 0
    /\ upd.handle = "none"
    /\ upd' = [upd EXCEPT !.handle = "pending"]
    /\ dispatch(InstallRequests \cup UseRequests \cup ListRequests)
    /\ UNCHANGED zip
    /\ UNCHANGED before

\* the spawned task: check_for_update returns, at any moment before the
\* process ends
check_for_update ==
    /\ upd.handle = "pending"
    /\ upd.exit = "none"
    /\ \E res \in {"newer", "up to date", "error"} :
         upd' = [upd EXCEPT !.handle = "ready", !.res = res]
    /\ UNCHANGED <<versions, binDir, localTarget, cloned, ensured, pc, args, mode, key,
                   hashes, archive, idx, result, obs, bin0, versions0, prev, runs,
                   faults, unset, zip>>
    /\ UNCHANGED before

\* join_exit with the error of the check returned by the run
join_exit_propagates(res) == IF res = "error" THEN "err" ELSE "ok"

\* main::run after the join: print_update prints the result, an error of the
\* check as a warning, and the run returns Ok
join_exit(res) == "ok"

\* main::run, update_handle.await: reached when the primary operation
\* returned Ok; waits until the task has returned
join_update ==
    /\ pc = "done"
    /\ result = "ok"
    /\ ~obs.cacheHit
    /\ upd.exit = "none"
    /\ upd.handle = "ready"
    /\ upd' = [upd EXCEPT !.handle = "joined", !.joins = upd.joins + 1,
                          !.exit = join_exit(upd.res)]
    /\ UNCHANGED <<versions, binDir, localTarget, cloned, ensured, pc, args, mode, key,
                   hashes, archive, idx, result, obs, bin0, versions0, prev, runs,
                   faults, unset, zip>>
    /\ UNCHANGED before

\* the process ends without the join: the primary operation returned an
\* error, which main::run returns with `?`, or the install found the version
\* installed and verified and called std::process::exit(0)
leave_without_join ==
    /\ pc = "done"
    /\ upd.exit = "none"
    /\ upd.handle \in {"pending", "ready"}
    /\ \/ /\ result # "ok"
          /\ upd' = [upd EXCEPT !.handle = "dropped", !.exit = "err"]
       \/ /\ result = "ok"
          /\ obs.cacheHit
          /\ upd' = [upd EXCEPT !.handle = "dropped", !.exit = "ok"]
    /\ UNCHANGED <<versions, binDir, localTarget, cloned, ensured, pc, args, mode, key,
                   hashes, archive, idx, result, obs, bin0, versions0, prev, runs,
                   faults, unset, zip>>
    /\ UNCHANGED before

InitUpdate ==
    /\ \/ versions = NoVersions /\ binDir = EmptyDir
       \/ versions = [k \in {StableKey} |-> StableDir] /\ binDir = StableDir
    /\ localTarget = EmptyDir
    /\ cloned = {}
    /\ ensured = (versions # NoVersions)
    /\ pc = "idle"
    /\ args = BaseArgs
    /\ mode = ""
    /\ key = NoKey
    /\ hashes = <<>>
    /\ archive = EmptyDir
    /\ idx = 0
    /\ result = "none"
    /\ obs = NoObs
    /\ bin0 = EmptyDir
    /\ versions0 = NoVersions
    /\ prev = <<>>
    /\ runs = 0
    /\ faults = 0
    /\ unset = {}
    /\ upd = NoUpdate
    /\ zip = NoZip
    /\ env = NoEnv
    /\ store = NoStore
    /\ selfupd = NoSelfUpdate
    /\ pair = NoPair

\* the steps of the primary operation
PrimaryNext ==
    \/ install_run
    \/ install_prebuilt
    \/ attestation_lookup
    \/ attestation_artifact
    \/ attestation_cache
    \/ download
    \/ extract
    \/ verify
    \/ manpages
    \/ install_tempo_prebuilt
    \/ install_from_local
    \/ local_link
    \/ install_from_source
    \/ source_step
    \/ source_move
    \/ use_version
    \/ use_loop
    \/ list

NextUpdate ==
    \/ main_run_update
    \/ PrimaryNext
    \/ check_for_update
    \/ join_update
    \/ leave_without_join

\* the primary operation and main::run take their steps; the update check
\* may never return
SpecUpdate ==
    /\ InitUpdate
    /\ [][NextUpdate]_vars
    /\ WF_vars(PrimaryNext)
    /\ WF_vars(join_update)
    /\ WF_vars(leave_without_join)

\* the exit status the primary operation asks for
PrimaryExit == IF result = "ok" THEN "ok" ELSE "err"

\* C16: on every path by which the run ends the update check has been joined
\* exactly once, and it is joined only after the primary operation finished
C16_JoinedOnceOnEveryPath ==
    /\ upd.exit # "none" => upd.joins = 1
    /\ upd.joins > 0 => pc = "done"
    /\ upd.joins <= 1

\* C17 as stated: whether the check returns a version, an error or never
\* returns, the primary operation finishes and the run ends with the exit
\* status of the primary operation
C17_RunEndsWithPrimaryResult ==
    /\ [](upd.exit # "none" => upd.exit = PrimaryExit)
    /\ (pc # "idle") ~> (pc = "done" /\ upd.exit = PrimaryExit)

\* C17 amended: whether the check returns a version, an error or never
\* returns, the primary operation finishes, and a run that ends ends with the
\* exit status of the primary operation; the run ends once the check has
\* returned
C17_PrimaryFinishesAndDecides ==
    /\ [](upd.exit # "none" => upd.exit = PrimaryExit)
    /\ (pc # "idle") ~> (pc = "done")
    /\ (pc # "idle" /\ upd.handle # "pending") ~> (upd.exit # "none")

\* a run ended successfully after an update check that returned an error
C17_Witness ==
    /\ upd.exit = "ok"
    /\ upd.joins = 1
    /\ upd.res = "error"
    /\ obs.activated

-----------------------------------------------------------------------------
(* Subprocesses, warnings, version strings                                 *)

\* C18: when a git or cargo subprocess of a source or local build has exited
\* with a non-zero status, the install has ended with a build error: no
\* subprocess was started after it and none twice, the version store and
\* binDir are what they were before the run, and use_version was not called
C18_SubprocessFailureAborts ==
    obs.procFailed
    => /\ pc = "done"
       /\ result = "err_build"
       /\ mode \in {"SourceBuild", "LocalBuild"}
       /\ mode = "LocalBuild" => obs.spawned = 1
       /\ mode = "SourceBuild" => obs.spawned >= 1 /\ obs.spawned <= idx
       /\ ~obs.activated
       /\ versions = versions0
       /\ binDir = bin0

\* a git checkout failed in a source build started over an active version
C18_Witness ==
    /\ pc = "done"
    /\ result = "err_build"
    /\ obs.procFailed
    /\ mode = "SourceBuild"
    /\ SourceSteps[idx] = "git_checkout"
    /\ \E b \in AllBins : binDir[b].kind = "file"

\* C19: a failure of download_manpages and a binary found elsewhere in PATH
\* are warnings: the install goes on to the activation and the activation to
\* the next binary, the run ends with an error only when a file-system call
\* of the activation fails, and a run that ends successfully has activated
\* the version
C19_WarningsOnly ==
    obs.warnings # {}
    => /\ pc \in {"use_version", "use_loop", "done"}
       /\ result \in {"running", "ok", "err_fs"}
       /\ result = "err_fs" => faults > 0
       /\ pc = "done" /\ result = "ok" =>
            /\ obs.activated
            /\ \A b \in AllBins :
                 Ships(b) => Active(b) = File(versions[key][b].content, TRUE)

\* an install ended successfully after both warnings
C19_Witness ==
    /\ pc = "done"
    /\ result = "ok"
    /\ obs.warnings = {"manpages", "PATH"}
    /\ obs.downloads = 1
    /\ obs.activated

-----------------------------------------------------------------------------
(* The version string of a prebuilt install                                *)

\* version strings: a string is the concatenation of its tokens
RECURSIVE VersionsOfLen(_)
VersionsOfLen(n) ==
    IF n = 0 THEN {<<>>}
    ELSE {Append(v, t) : v \in VersionsOfLen(n - 1),
                         t \in {"nightly", "-2024-01-01", "1", "9", ".5.0", "v",
                                "stable", "x"}}

VersionStrings == UNION {VersionsOfLen(n) : n \in 0..MaxVersionLen}

InitVersions ==
    /\ versions = NoVersions
    /\ binDir = EmptyDir
    /\ localTarget = EmptyDir
    /\ cloned = {}
    /\ ensured = TRUE
    /\ pc = "install_prebuilt"
    /\ \E v \in {<<>>} \cup {<<w>> : w \in VersionStrings}, f \in BOOLEAN :
         args = [BaseArgs EXCEPT !.version = v, !.force = f]
    /\ mode = "Prebuilt"
    /\ key = NoKey
    /\ hashes = <<>>
    /\ archive = EmptyDir
    /\ idx = 0
    /\ result = "running"
    /\ obs = NoObs
    /\ bin0 = EmptyDir
    /\ versions0 = NoVersions
    /\ prev = <<>>
    /\ runs = 1
    /\ faults = 0
    /\ unset = {}
    /\ upd = NoUpdate
    /\ zip = NoZip
    /\ env = NoEnv
    /\ store = NoStore
    /\ selfupd = NoSelfUpdate
    /\ pair = NoPair

NextVersions == install_prebuilt

SpecVersions == InitVersions /\ [][NextVersions]_vars

\* the version string asked for, "stable" when none is given
Requested == IF args.version = <<>> THEN <<"stable">> ELSE args.version[1]

\* C20: a version string that begins with "nightly" becomes "nightly", one
\* that begins with a digit gets a "v" in front, every other one ("stable",
\* one that begins with "v") is kept; the result names both the release the
\* install downloads from and the version directory
C20_VersionNormalization ==
    pc # "install_prebuilt"
    => /\ Len(Requested) > 0 /\ Requested[1] = "nightly"
          => key[2] = <<"nightly">>
       /\ Len(Requested) > 0 /\ Requested[1] \in {"1", "9"}
          => key[2] = <<"v">> \o Requested
       /\ (Len(Requested) = 0 \/ Requested[1] \notin {"nightly", "1", "9"})
          => key[2] = Requested
       /\ Requested = <<"nightly", "-2024-01-01">> => key[2] = <<"nightly">>
       /\ Requested = <<"1", ".5.0">> => key[2] = <<"v", "1", ".5.0">>
       /\ Requested = <<"stable">> => key[2] = <<"stable">>
       /\ Requested = <<"v", "1">> => key[2] = <<"v", "1">>
       /\ key = <<FOUNDRY_REPO, key[2]>>
       /\ release = <<FOUNDRY_REPO, key[2]>>

\* a dated nightly was asked for and the install goes on with "nightly"
C20_Witness ==
    /\ pc = "attestation_lookup"
    /\ args.version = <<<<"nightly", "-2024-01-01">>>>
    /\ key = <<FOUNDRY_REPO, <<"nightly">>>>

-----------------------------------------------------------------------------
(* The tag of a release of the tempo network: install_tempo_prebuilt       *)

\* download_and_extract_tempo: the version part of the archive name,
\* foundry_nightly_<platform>_<arch>.<ext> whatever the tag
tempo_archive_version(tag) == <<"nightly">>

InitTempoVersions ==
    /\ versions = NoVersions
    /\ binDir = EmptyDir
    /\ localTarget = EmptyDir
    /\ cloned = {}
    /\ ensured = TRUE
    /\ pc = "install_tempo_prebuilt"
    /\ \E v \in {<<>>} \cup {<<w>> : w \in VersionStrings}, f \in BOOLEAN :
         args = [BaseArgs EXCEPT !.version = v, !.force = f, !.network = Tempo]
    /\ mode = "AlternatePrebuilt"
    /\ key = NoKey
    /\ hashes = <<>>
    /\ archive = EmptyDir
    /\ idx = 0
    /\ result = "running"
    /\ obs = NoObs
    /\ bin0 = EmptyDir
    /\ versions0 = NoVersions
    /\ prev = <<>>
    /\ runs = 1
    /\ faults = 0
    /\ unset = {}
    /\ upd = NoUpdate
    /\ zip = NoZip
    /\ env = NoEnv
    /\ store = NoStore
    /\ selfupd = NoSelfUpdate
    /\ pair = NoPair

NextTempoVersions == install_tempo_prebuilt

SpecTempoVersions == InitTempoVersions /\ [][NextTempoVersions]_vars

\* the version string asked of the tempo network, "nightly" when none is given
RequestedTempo == IF args.version = <<>> THEN <<"nightly">> ELSE args.version[1]

\* C21: the AlternatePrebuilt path normalizes the requested version into a
\* tag as the Prebuilt path does (a leading "nightly" becomes "nightly", a
\* leading digit gets a "v" in front), and that tag names the release, the
\* archive and the version directory
C21_TempoNormalizesLikePrebuilt ==
    pc = "download"
    => /\ key = <<TEMPO_REPO, version_to_tag(normalize_version(RequestedTempo))>>
       /\ release = <<TEMPO_REPO, version_to_tag(normalize_version(RequestedTempo))>>
       /\ tempo_archive_version(key[2]) = key[2]
       /\ RequestedTempo = <<"1", ".5.0">> => key[2] = <<"v", "1", ".5.0">>
       /\ RequestedTempo = <<"nightly", "-2024-01-01">> => key[2] = <<"nightly">>

-----------------------------------------------------------------------------
(* The root directory and the layout: Config::new                          *)

\* what install::run, list and use_version work on
primary == <<versions, binDir, localTarget, cloned, ensured, pc, args, mode, key, hashes,
             archive, idx, result, obs, bin0, versions0, prev, runs, faults, unset>>

\* the file system and the invocation before main::run has done anything
Fresh(at) ==
    /\ versions = NoVersions
    /\ binDir = EmptyDir
    /\ localTarget = EmptyDir
    /\ cloned = {}
    /\ ensured = FALSE
    /\ pc = at
    /\ args = BaseArgs
    /\ mode = ""
    /\ key = NoKey
    /\ hashes = <<>>
    /\ archive = EmptyDir
    /\ idx = 0
    /\ result = "running"
    /\ obs = NoObs
    /\ bin0 = EmptyDir
    /\ versions0 = NoVersions
    /\ prev = <<>>
    /\ runs = 1
    /\ faults = 0
    /\ unset = {}

\* a path is the sequence of its components; PathBuf::join of relative
\* components appends them
join(path, rel) == path \o rel

\* a directory the environment may name, or none
OptionalDirs ==
    {<<>>} \cup {<<d>> : d \in {<<"/", "home", "u">>, <<"/", "xdg">>,
                                 <<"/", "opt", "foundry">>}}

\* Option::or_else
or_else(opt, other) == IF opt # <<>> THEN opt ELSE other

\* Config::new: XDG_CONFIG_HOME, or else home::home_dir()
base_dir(e) == or_else(e.xdg, e.home)

\* Config::new: the four directories from foundry_dir
layout(foundry_dir) ==
    [foundry_dir |-> foundry_dir,
     versions_dir |-> join(foundry_dir, <<"versions">>),
     bin_dir |-> join(foundry_dir, <<"bin">>),
     man_dir |-> join(foundry_dir, <<"share", "man", "man1">>)]

\* Config::new: the error of a missing base directory comes first, then
\* FOUNDRY_DIR or <base>/.foundry
Config_new ==
    /\ pc = "config"
    /\ env.res = "none"
    /\ IF base_dir(env) = <<>>
       THEN /\ env' = [env EXCEPT !.res = "err_config"]
            /\ Fail("err_config")
       ELSE /\ env' = [env EXCEPT
                 !.res = "ok",
                 !.config = <<layout(unwrap_or(env.foundry_dir,
                                              join(base_dir(env)[1], <<".foundry">>)))>>]
            /\ pc' = "done"
            /\ result' = "ok"
    /\ UNCHANGED <<versions, binDir, localTarget, cloned, ensured, args, mode, key,
                   hashes,
                   archive, idx, obs, bin0, versions0, prev, runs, faults, unset>>
    /\ UNCHANGED <<upd, zip, store, selfupd, pair>>

InitConfig ==
    /\ Fresh("config")
    /\ upd = NoUpdate
    /\ zip = NoZip
    /\ \E x \in OptionalDirs, h \in OptionalDirs, f \in OptionalDirs :
         env = [NoEnv EXCEPT !.xdg = x, !.home = h, !.foundry_dir = f]
    /\ store = NoStore
    /\ selfupd = NoSelfUpdate
    /\ pair = NoPair

NextConfig == Config_new

SpecConfig == InitConfig /\ [][NextConfig]_vars

\* C22: root resolution fails only when neither the root override nor a home
\* directory (config-home variable or platform home) is available; with the
\* root override set it succeeds with rootDir the override; versionsDir,
\* binDir and manDir are rootDir/versions, rootDir/bin, rootDir/share/man/man1
C22_RootResolution ==
    env.res # "none"
    => /\ env.res = "err_config"
          => env.foundry_dir = <<>> /\ env.xdg = <<>> /\ env.home = <<>>
       /\ env.foundry_dir # <<>>
          => /\ env.res = "ok"
             /\ env.config[1].foundry_dir = env.foundry_dir[1]
       /\ env.res = "ok"
          => /\ env.config[1].versions_dir = env.config[1].foundry_dir \o <<"versions">>
             /\ env.config[1].bin_dir = env.config[1].foundry_dir \o <<"bin">>
             /\ env.config[1].man_dir =
                  env.config[1].foundry_dir \o <<"share", "man", "man1">>

-----------------------------------------------------------------------------
(* The manager's own update: self_update.rs                                *)

\* the tokens of the strings the semver crate is given
MaxTagLen == 3

\* the strings that are semantic versions, in increasing precedence
SemverStrings == <<"0.9.0", "1.0.0-rc.1", "1.0.0", "1.0.1">>

\* Version::parse: major, minor, patch and the pre-release, <<>> for none; a
\* string that is not exactly a semantic version does not parse
Version_parse(s) ==
    IF Len(s) # 1 THEN <<>>
    ELSE CASE s[1] = "0.9.0" -> <<[major |-> 0, minor |-> 9, patch |-> 0, pre |-> <<>>]>>
           [] s[1] = "1.0.0-rc.1" ->
                <<[major |-> 1, minor |-> 0, patch |-> 0, pre |-> <<"rc.1">>]>>
           [] s[1] = "1.0.0" -> <<[major |-> 1, minor |-> 0, patch |-> 0, pre |-> <<>>]>>
           [] s[1] = "1.0.1" -> <<[major |-> 1, minor |-> 0, patch |-> 1, pre |-> <<>>]>>
           [] OTHER -> <<>>

\* greater that takes an equal version for a newer one
greater_or_equal(remote, current) ==
    \/ remote.major > current.major
    \/ remote.major = current.major /\ remote.minor > current.minor
    \/ /\ remote.major = current.major /\ remote.minor = current.minor
       /\ remote.patch > current.patch
    \/ /\ remote.major = current.major /\ remote.minor = current.minor
       /\ remote.patch = current.patch
       /\ (remote.pre = <<>> \/ current.pre # <<>>)

\* remote > current of semver::Version: major, minor, patch, and of two
\* versions equal in these the one without pre-release is the greater
greater(remote, current) ==
    \/ remote.major > current.major
    \/ remote.major = current.major /\ remote.minor > current.minor
    \/ /\ remote.major = current.major /\ remote.minor = current.minor
       /\ remote.patch > current.patch
    \/ /\ remote.major = current.major /\ remote.minor = current.minor
       /\ remote.patch = current.patch
       /\ remote.pre = <<>> /\ current.pre # <<>>

\* str::trim_start_matches('v'): every leading "v" is removed
RECURSIVE trim_start_matches(_)
trim_start_matches(tag) ==
    IF tag # <<>> /\ Head(tag) = "v" THEN trim_start_matches(Tail(tag)) ELSE tag

\* the tag names of the latest release
RECURSIVE TagsOfLen(_)
TagsOfLen(n) ==
    IF n = 0 THEN {<<>>}
    ELSE {Append(t, tok) : t \in TagsOfLen(n - 1),
                           tok \in {"v", "0.9.0", "1.0.0-rc.1", "1.0.0", "1.0.1", "1.0", "x"}}

\* what the releases/latest request gives: a failure, a body that is not
\* JSON, JSON without a string tag_name, or a tag name
Responses ==
    {[kind |-> k, tag |-> <<>>] : k \in {"fail", "bad_json", "no_tag"}}
    \cup {[kind |-> "tag", tag |-> t] : t \in UNION {TagsOfLen(n) : n \in 0..MaxTagLen}}

\* check_for_update: Err, Ok(None) or Ok(Some(remote_version))
check_for_update_result(response, current) ==
    IF response.kind # "tag" THEN [kind |-> "err", version |-> <<>>]
    ELSE LET remote_version == trim_start_matches(response.tag)
             cur == Version_parse(<<current>>)
             remote == Version_parse(remote_version)
         IN IF cur = <<>> THEN [kind |-> "err", version |-> <<>>]
            ELSE IF remote = <<>> THEN [kind |-> "none", version |-> <<>>]
            ELSE IF greater(remote[1], cur[1])
                 THEN [kind |-> "some", version |-> remote_version]
                 ELSE [kind |-> "none", version |-> <<>>]

\* main::run: with --update self_update::run is all the run does; without it
\* the request is dispatched
main_run_flag ==
    /\ runs = 0
    /\ selfupd.pc = "none"
    /\ \E update \in BOOLEAN :
         IF update
         THEN /\ \E a \in InstallRequests \cup UseRequests \cup ListRequests : args' = a
              /\ selfupd' = [selfupd EXCEPT !.pc = "check"]
              /\ runs' = runs + 1
              /\ UNCHANGED <<versions, binDir, localTarget, cloned, ensured, pc, mode, key,
                             hashes, archive, idx, result, obs, bin0, versions0,
                             prev, faults, unset>>
         ELSE /\ dispatch(InstallRequests \cup UseRequests \cup ListRequests)
              /\ selfupd' = [selfupd EXCEPT !.pc = "off"]
    /\ UNCHANGED <<upd, zip, env, store, pair>>

\* self_update::run, the check: no update returns Ok, an error of the check
\* is returned
self_update_check ==
    /\ selfupd.pc = "check"
    /\ \E response \in Responses, current \in {"1.0.0-rc.1", "1.0.0", "1.0.1"} :
         LET check == check_for_update_result(response, current)
         IN selfupd' = [selfupd EXCEPT
                !.response = response,
                !.current = current,
                !.check = check,
                !.pc = IF check.kind = "some" THEN "download" ELSE "done",
                !.res = CASE check.kind = "some" -> "none"
                          [] check.kind = "none" -> "ok"
                          [] OTHER -> "err_check"]
    /\ UNCHANGED primary
    /\ UNCHANGED <<upd, zip, env, store, pair>>

\* after_download that goes on whatever the download did
after_download_always(outcome) == "replace"

\* self_update::run: download_to_file returns an error when the request
\* fails or the body ends early, and the run returns it
after_download(outcome) == IF outcome = "ok" THEN "replace" ELSE "done"

self_update_download ==
    /\ selfupd.pc = "download"
    /\ \E outcome \in {"ok", "failed", "cut"} :
         selfupd' = [selfupd EXCEPT
             !.downloaded = (outcome = "ok"),
             !.pc = after_download(outcome),
             !.res = IF after_download(outcome) = "done" THEN "err_download" ELSE "none"]
    /\ UNCHANGED primary
    /\ UNCHANGED <<upd, zip, env, store, pair>>

\* self_update::run: self_replace puts the downloaded file in the place of
\* the running executable, or fails and leaves it
self_update_replace ==
    /\ selfupd.pc = "replace"
    /\ \E replaced \in BOOLEAN :
         selfupd' = [selfupd EXCEPT
             !.exe = IF replaced THEN <<selfupd.check.version>> ELSE selfupd.exe,
             !.pc = "done",
             !.res = IF replaced THEN "ok" ELSE "err_replace"]
    /\ UNCHANGED primary
    /\ UNCHANGED <<upd, zip, env, store, pair>>

NextSelfUpdate ==
    \/ main_run_flag
    \/ self_update_check
    \/ self_update_download
    \/ self_update_replace
    \/ PrimaryNext

SpecSelfUpdate == InitUpdate /\ [][NextSelfUpdate]_vars

\* a string that is exactly one semantic version
IsSemver(s) == Len(s) = 1 /\ \E i \in 1..Len(SemverStrings) : SemverStrings[i] = s[1]

\* the place of a semantic version in the order of precedence
Precedence(v) == CHOOSE i \in 1..Len(SemverStrings) : SemverStrings[i] = v

\* what the check has to return for the remote version string rest
Answers(rest) ==
    IF IsSemver(rest) /\ Precedence(rest[1]) > Precedence(selfupd.current)
    THEN selfupd.check = [kind |-> "some", version |-> rest]
    ELSE selfupd.check = [kind |-> "none", version |-> <<>>]

\* C23 as stated: the update check returns the remote version only if, after
\* stripping a leading "v", it parses as a semantic version strictly greater
\* than the running version; an equal or lower remote version and one that
\* fails to parse both yield 'no update' and not an error
C23_NewerAfterOneV ==
    selfupd.response.kind = "tag"
    => LET tag == selfupd.response.tag
       IN Answers(IF tag # <<>> /\ Head(tag) = "v" THEN Tail(tag) ELSE tag)

\* C23 amended: the same with every leading "v" of the tag stripped
C23_NewerAfterLeadingVs ==
    selfupd.response.kind = "tag"
    => LET tag == selfupd.response.tag
       IN \E n \in 0..Len(tag) :
            /\ \A i \in 1..n : tag[i] = "v"
            /\ n = Len(tag) \/ tag[n + 1] # "v"
            /\ Answers(SubSeq(tag, n + 1, Len(tag)))

\* releases were answered: a newer one behind a "v", an equal one, one that
\* does not parse
C23_Witness ==
    /\ selfupd.response.kind = "tag"
    /\ \/ /\ selfupd.response.tag = <<"v", "1.0.1">>
          /\ selfupd.current = "1.0.0"
          /\ selfupd.check = [kind |-> "some", version |-> <<"1.0.1">>]
       \/ /\ selfupd.response.tag = <<"v", "1.0">>
          /\ selfupd.check.kind = "none"

\* C29: self-update replaces the running executable only after the check
\* found a strictly newer version and the new artifact was downloaded
\* completely; when no update is available, the check fails or the download
\* fails the executable is left unchanged; with the update flag the
\* install/list/use operation is not run at all
C29_SelfUpdateReplacesOnlyNewer ==
    /\ selfupd.exe # <<>>
       => /\ selfupd.check.kind = "some"
          /\ selfupd.exe = <<selfupd.check.version>>
          /\ IsSemver(selfupd.check.version)
          /\ Precedence(selfupd.check.version[1]) > Precedence(selfupd.current)
          /\ selfupd.downloaded
    /\ (selfupd.pc = "done" /\ selfupd.res \in {"ok", "err_check", "err_download"}
        /\ (selfupd.check.kind \in {"none", "err"} \/ ~selfupd.downloaded))
       => selfupd.exe = <<>>
    /\ selfupd.pc \notin {"none", "off"}
       => /\ pc = "idle"
          /\ result = "none"
          /\ obs = NoObs
          /\ \/ versions = NoVersions /\ binDir = EmptyDir
             \/ versions = [k \in {StableKey} |-> StableDir] /\ binDir = StableDir
          /\ key = NoKey
          /\ mode = ""
    /\ selfupd.pc = "off" => selfupd.exe = <<>> /\ selfupd.check.kind = "pending"

\* the executable was replaced by the newer release, the request not served
C29_Witness ==
    /\ selfupd.pc = "done"
    /\ selfupd.res = "ok"
    /\ selfupd.exe = <<<<"1.0.1">>>>
    /\ selfupd.current = "1.0.0"
    /\ args.op = "list"
    /\ pc = "idle"

-----------------------------------------------------------------------------
(* The legacy layout of the version store: migrate_legacy_versions         *)

IsPrefix(p, q) == Len(p) <= Len(q) /\ SubSeq(q, 1, Len(p)) = p

\* Path::exists and Path::is_dir in a tree
path_exists(tree, p) == p \in DOMAIN tree
is_dir(tree, p) == p \in DOMAIN tree /\ tree[p] = "dir"

\* fs::read_dir: the entries of a directory
read_dir(tree, p) == {q \in DOMAIN tree : Len(q) = Len(p) + 1 /\ IsPrefix(p, q)}

\* what lies at p, with the paths taken from p
subtree(tree, p) ==
    [q \in {SubSeq(r, Len(p) + 1, Len(r)) : r \in {r \in DOMAIN tree : IsPrefix(p, r)}}
       |-> tree[p \o q]]

\* Config::is_legacy_version_dir: the directory has an entry named as a
\* binary of the primary network
is_legacy_version_dir(tree, path) ==
    \E i \in 1..Len(FoundryBins) : path_exists(tree, path \o <<FoundryBins[i]>>)

\* Config::is_owner_dir: a directory of the directory has a directory with
\* an entry named as a binary of the primary network
is_owner_dir(tree, path) ==
    \E entry_path \in read_dir(tree, path) :
        /\ is_dir(tree, entry_path)
        /\ \E sub_entry \in read_dir(tree, entry_path) :
             /\ is_dir(tree, sub_entry)
             /\ \E i \in 1..Len(FoundryBins) :
                  path_exists(tree, sub_entry \o <<FoundryBins[i]>>)

\* fs::create_dir_all: fails when a component of the path is a file
create_dir_all_ok(tree, p) ==
    \A n \in 0..Len(p) :
        path_exists(tree, SubSeq(p, 1, n)) => is_dir(tree, SubSeq(p, 1, n))

create_dir_all(tree, p) ==
    [q \in DOMAIN tree \cup {SubSeq(p, 1, n) : n \in 0..Len(p)} |->
        IF q \in DOMAIN tree THEN tree[q] ELSE "dir"]

\* rename(2) of a directory: fails when the new path lies in the directory
\* itself, is a file, or is a directory that is not empty
rename_ok(tree, from, to) ==
    /\ ~IsPrefix(from, to)
    /\ path_exists(tree, to) => is_dir(tree, to) /\ read_dir(tree, to) = {}

\* rename that leaves the directory where it was: a copy
rename_copy(tree, from, to) ==
    [q \in DOMAIN tree
           \cup {to \o SubSeq(r, Len(from) + 1, Len(r)) :
                   r \in {r \in DOMAIN tree : IsPrefix(from, r)}} |->
        IF IsPrefix(to, q) THEN tree[from \o SubSeq(q, Len(to) + 1, Len(q))]
        ELSE tree[q]]

\* fs::rename: what was at from is at to
rename(tree, from, to) ==
    [q \in {r \in DOMAIN tree : ~IsPrefix(from, r)}
           \cup {to \o SubSeq(r, Len(from) + 1, Len(r)) :
                   r \in {r \in DOMAIN tree : IsPrefix(from, r)}} |->
        IF IsPrefix(to, q) THEN tree[from \o SubSeq(q, Len(to) + 1, Len(q))]
        ELSE tree[q]]

\* self.version_dir(default_repo, name), from versionsDir
legacy_target(name) == <<FOUNDRY_REPO[1], FOUNDRY_REPO[2], name>>

\* a tree from the entries <<path, kind>> listed
TreeOf(entries) ==
    [p \in {e[1] : e \in entries} |-> (CHOOSE e \in entries : e[1] = p)[2]]

\* what versionsDir may hold under the name stable: nothing, a file, an
\* empty directory, a version of the flat layout (with one binary or two),
\* and a directory that has a binary and an owner's directories as well
StableShapes ==
    {{},
     {<<<<"stable">>, "file">>},
     {<<<<"stable">>, "dir">>},
     {<<<<"stable">>, "dir">>, <<<<"stable", "forge">>, "file">>},
     {<<<<"stable">>, "dir">>, <<<<"stable", "forge">>, "file">>,
      <<<<"stable", "cast">>, "file">>},
     {<<<<"stable">>, "dir">>, <<<<"stable", "forge">>, "file">>,
      <<<<"stable", "x">>, "dir">>, <<<<"stable", "x", "y">>, "dir">>,
      <<<<"stable", "x", "y", "forge">>, "file">>}}

\* under the name v1: nothing, a version of the flat layout, a directory
\* without binary
OtherShapes ==
    {{},
     {<<<<"v1">>, "dir">>, <<<<"v1", "anvil">>, "file">>},
     {<<<<"v1">>, "dir">>, <<<<"v1", "README">>, "file">>}}

\* under the owner of the primary repository: nothing, the version stable
\* installed, its directory left empty, another version installed
OwnerShapes ==
    {{},
     {<<<<"foundry-rs">>, "dir">>, <<<<"foundry-rs", "foundry">>, "dir">>,
      <<<<"foundry-rs", "foundry", "stable">>, "dir">>,
      <<<<"foundry-rs", "foundry", "stable", "forge">>, "file">>},
     {<<<<"foundry-rs">>, "dir">>, <<<<"foundry-rs", "foundry">>, "dir">>,
      <<<<"foundry-rs", "foundry", "stable">>, "dir">>},
     {<<<<"foundry-rs">>, "dir">>, <<<<"foundry-rs", "foundry">>, "dir">>,
      <<<<"foundry-rs", "foundry", "nightly">>, "dir">>,
      <<<<"foundry-rs", "foundry", "nightly", "forge">>, "file">>}}

\* under another owner: nothing, a build of a repository named forge
ForkShapes ==
    {{},
     {<<<<"someone">>, "dir">>, <<<<"someone", "forge">>, "dir">>,
      <<<<"someone", "forge", "feat">>, "dir">>,
      <<<<"someone", "forge", "feat", "forge">>, "file">>}}

\* the version stores a migration may find; versionsDir may not exist
Stores ==
    {<<>>} \cup
    {TreeOf({<<<<>>, "dir">>} \cup a \cup b \cup c \cup d) :
        a \in StableShapes, b \in OtherShapes, c \in OwnerShapes, d \in ForkShapes}

\* migrate_legacy_versions up to the loop: nothing to do without
\* versionsDir; read_dir can fail
migrate_legacy_versions ==
    /\ store.pc = "migrate"
    /\ IF ~path_exists(store.tree, <<>>)
       THEN /\ store' = [store EXCEPT !.pc = "migrated", !.res = "ok"]
            /\ UNCHANGED faults
       ELSE \/ /\ Fault
               /\ store' = [store EXCEPT !.pc = "migrated", !.res = "err_fs"]
            \/ /\ store' = [store EXCEPT !.pc = "entry",
                                         !.todo = read_dir(store.tree, <<>>)]
               /\ UNCHANGED faults
    /\ UNCHANGED <<versions, binDir, localTarget, cloned, ensured, pc, args, mode, key,
                   hashes, archive, idx, result, obs, bin0, versions0, prev, runs,
                   unset>>
    /\ UNCHANGED <<upd, zip, env, selfupd, pair>>

\* one pass of the loop, over an entry read_dir gives (in any order): an
\* entry that is not a directory, an owner directory and a directory
\* without binary are passed over; a version of the flat layout is renamed
\* to versionsDir/foundry-rs/foundry/<name>.  A directory the loop creates
\* in versionsDir may or may not be given by the read_dir under way.
migrate_entry ==
    /\ store.pc = "entry"
    /\ IF store.todo = {}
       THEN /\ store' = [store EXCEPT !.pc = "migrated", !.res = "ok"]
            /\ UNCHANGED faults
       ELSE \E path \in store.todo :
            LET tree == store.tree
                rest == store.todo \ {path}
                new_path == legacy_target(path[1])
                parent == SubSeq(new_path, 1, Len(new_path) - 1)
                made == create_dir_all(tree, parent)
                created == read_dir(made, <<>>) \ read_dir(tree, <<>>)
            IN IF \/ ~is_dir(tree, path)
                  \/ is_owner_dir(tree, path)
                  \/ ~is_legacy_version_dir(tree, path)
               THEN /\ store' = [store EXCEPT !.todo = rest]
                    /\ UNCHANGED faults
               ELSE IF ~create_dir_all_ok(tree, parent)
               THEN /\ store' = [store EXCEPT !.pc = "migrated", !.res = "err_fs"]
                    /\ UNCHANGED faults
               ELSE IF ~rename_ok(made, path, new_path)
               THEN /\ store' = [store EXCEPT !.pc = "migrated", !.res = "err_fs",
                                              !.tree = made]
                    /\ UNCHANGED faults
               ELSE \/ /\ Fault
                       /\ \E t \in {tree, made} :
                            store' = [store EXCEPT !.pc = "migrated",
                                                   !.res = "err_fs", !.tree = t]
                    \/ /\ \E seen \in SUBSET created :
                            store' = [store EXCEPT
                                !.tree = rename(made, path, new_path),
                                !.todo = rest \cup seen,
                                !.moved = store.moved \cup {path}]
                       /\ UNCHANGED faults
    /\ UNCHANGED <<versions, binDir, localTarget, cloned, ensured, pc, args, mode, key,
                   hashes, archive, idx, result, obs, bin0, versions0, prev, runs,
                   unset>>
    /\ UNCHANGED <<upd, zip, env, selfupd, pair>>

\* the next invocation: main::run migrates again, on what the first
\* migration left
migrate_again ==
    /\ store.pc = "migrated"
    /\ store.run = 1
    /\ store' = [store EXCEPT
           !.pc = "migrate", !.run = 2, !.start = store.tree, !.todo = {},
           !.moved = {}, !.res = "none",
           !.first = <<[tree |-> store.tree, res |-> store.res,
                        moved |-> store.moved]>>]
    /\ UNCHANGED primary
    /\ UNCHANGED <<upd, zip, env, selfupd, pair>>

InitMigrate ==
    /\ Fresh("idle")
    /\ upd = NoUpdate
    /\ zip = NoZip
    /\ env = NoEnv
    /\ \E tree \in Stores :
         store = [NoStore EXCEPT !.pc = "migrate", !.run = 1, !.tree = tree,
                                 !.start = tree]
    /\ selfupd = NoSelfUpdate
    /\ pair = NoPair

NextMigrate == migrate_legacy_versions \/ migrate_entry \/ migrate_again

SpecMigrate == InitMigrate /\ [][NextMigrate]_vars

\* a directory directly under versionsDir that itself holds a binary of the
\* primary network
HoldsBinary(tree, path) ==
    /\ is_dir(tree, path)
    /\ \E b \in AllBins : path_exists(tree, path \o <<b>>) /\ tree[path \o <<b>>] = "file"

\* a directory that is an owner directory: owner/repository/version/binary
OwnerDirectory(tree, path) ==
    /\ is_dir(tree, path)
    /\ \E q \in DOMAIN tree :
         /\ Len(q) = Len(path) + 3
         /\ IsPrefix(path, q)
         /\ q[Len(q)] \in AllBins
         /\ tree[q] = "file"

\* what was at path is still there
Untouched(path) ==
    \A q \in DOMAIN store.start :
        IsPrefix(path, q) => path_exists(store.tree, q) /\ store.tree[q] = store.start[q]

\* C24: legacy migration moves every directory directly under versionsDir
\* that itself contains a primary-network binary (and is not an owner
\* directory) to versionsDir/<primary repository>/<same name> with its
\* contents intact, and leaves untouched every owner directory and every
\* entry that is not a directory
C24_MigrationMovesLegacy ==
    (store.run = 1 /\ store.pc = "migrated" /\ faults = 0)
    => /\ store.res = "ok"
       /\ \A path \in read_dir(store.start, <<>>) :
            /\ (HoldsBinary(store.start, path) /\ ~OwnerDirectory(store.start, path))
               => /\ ~path_exists(store.tree, path)
                  /\ subtree(store.tree, legacy_target(path[1]))
                       = subtree(store.start, path)
            /\ OwnerDirectory(store.start, path) => Untouched(path)
            /\ ~is_dir(store.start, path) => Untouched(path)

\* C30: legacy migration is idempotent: run a second time on the result of a
\* migration that succeeded it moves nothing, does not fail (unless a
\* file-system call fails) and leaves the version store unchanged; the owner
\* directory the first run created is not taken for a legacy version
C30_MigrationIdempotent ==
    (store.run = 2 /\ store.first[1].res = "ok")
    => /\ store.tree = store.first[1].tree
       /\ store.moved = {}
       /\ store.res = "err_fs" => faults > 0
       /\ (store.pc = "migrated" /\ faults = 0) => store.res = "ok"
       /\ \A path \in read_dir(store.tree, <<>>) :
            is_dir(store.tree, path) /\ ~OwnerDirectory(store.tree, path)
            => ~HoldsBinary(store.tree, path)

\* the first migration moved the flat version stable under a new owner
\* directory and the second has gone through the store
C30_Witness ==
    /\ store.run = 2
    /\ store.pc = "migrated"
    /\ store.res = "ok"
    /\ store.first[1].res = "ok"
    /\ <<"stable">> \in store.first[1].moved
    /\ path_exists(store.tree, <<"foundry-rs", "foundry", "stable", "forge">>)
    /\ ~path_exists(store.tree, <<"stable">>)

-----------------------------------------------------------------------------
(* list on a root directory without version store                          *)

\* what binDir may hold under a name: nothing, a binary of stable, a link a
\* local install left
ActiveEntries(b) == {NoFile, File(Genuine(StableKey, b), TRUE), Symlink}

\* the root directory a list may find: with versionsDir or without, stable
\* installed or nothing, binDir and the build tree in any state
InitList ==
    /\ ensured \in BOOLEAN
    /\ versions \in IF ensured THEN {NoVersions, [k \in {StableKey} |-> StableDir]}
                            ELSE {NoVersions}
    /\ binDir \in {d \in [AllBins -> UNION {ActiveEntries(b) : b \in AllBins}] :
                     \A b \in AllBins : d[b] \in ActiveEntries(b)}
    /\ localTarget \in {EmptyDir, [b \in AllBins |-> File(Built(LocalTree, b), TRUE)]}
    /\ cloned = {}
    /\ pc = "idle"
    /\ args = BaseArgs
    /\ mode = ""
    /\ key = NoKey
    /\ hashes = <<>>
    /\ archive = EmptyDir
    /\ idx = 0
    /\ result = "none"
    /\ obs = NoObs
    /\ bin0 = EmptyDir
    /\ versions0 = NoVersions
    /\ prev = <<>>
    /\ runs = 0
    /\ faults = 0
    /\ unset = {}
    /\ upd = NoUpdate
    /\ zip = NoZip
    /\ env = NoEnv
    /\ store = NoStore
    /\ selfupd = NoSelfUpdate
    /\ pair = NoPair

\* main::run with --list
main_run_list == main_run_of(ListRequests)

NextList == main_run_list \/ list

SpecList == InitList /\ [][NextList]_vars

\* C25: list succeeds when nothing is installed: if versionsDir does not
\* exist it reports the active binaries found in binDir instead, returns
\* success, and creates or modifies no directory or file
C25_ListWithoutStore ==
    /\ [](pc = "done" /\ ~ensured
           => /\ result = "ok"
              /\ obs.listed =
                   <<[from |-> "binDir",
                      names |-> {b \in AllBins :
                                  \/ binDir[b].kind = "file"
                                  \/ /\ binDir[b].kind = "symlink"
                                     /\ localTarget[b].kind = "file"}]>>
              /\ binDir = bin0
              /\ versions = NoVersions)
    /\ [][pc = "list" => UNCHANGED <<versions, binDir, localTarget, cloned, ensured>>]_vars

\* nothing installed and no versionsDir, forge active and anvil a link
\* without target: forge is reported
C25_Witness ==
    /\ pc = "done"
    /\ ~ensured
    /\ result = "ok"
    /\ binDir["forge"].kind = "file"
    /\ binDir["anvil"].kind = "symlink"
    /\ localTarget = EmptyDir
    /\ obs.listed # <<>>
    /\ obs.listed[1].names = {"forge"}

-----------------------------------------------------------------------------
(* The version directory is not trusted for being there                    *)

\* a prebuilt install went on to the activation without a download
DownloadSkipped ==
    /\ mode = "Prebuilt"
    /\ args.op = "install"
    /\ obs.downloads = 0
    /\ pc \in {"use_version", "use_loop"} \/ obs.activated

\* C26: a prebuilt install skips the archive download only when a bundle was
\* obtained and every expected binary exists in the version directory with
\* the digest of the bundle; a version directory that is merely there
\* (partially populated, with a binary that does not match, or without
\* attestation available) is downloaded again
C26_SkipOnlyWhenVerified ==
    DownloadSkipped
    => /\ ~args.force
       /\ obs.attFetch
       /\ obs.cacheHit
       /\ hashes # <<>>
       /\ key \in DOMAIN versions0
       /\ \A b \in SeqToSet(bins(args.network)) :
            /\ versions0[key][b].kind = "file"
            /\ b \in DOMAIN hashes[1]
            /\ hashes[1][b] = [sha256 |-> versions0[key][b].content]

\* the version directory was there with a binary missing, a bundle was
\* obtained, and the archive was downloaded again
C26_Witness ==
    /\ mode = "Prebuilt"
    /\ key \in DOMAIN versions0
    /\ \E b \in SeqToSet(bins(args.network)) : versions0[key][b].kind = "none"
    /\ \E b \in SeqToSet(bins(args.network)) : versions0[key][b].kind = "file"
    /\ hashes # <<>>
    /\ obs.cacheCmp
    /\ ~obs.cacheHit
    /\ obs.downloads = 1
    /\ pc = "done"
    /\ result = "ok"

-----------------------------------------------------------------------------
(* What the activation leaves where something was                          *)

\* C27: activation replaces whatever is at binDir/<name>: whether the entry
\* was absent, a regular file, a link to a file or a link whose target is
\* missing, a successful activation of V leaves at binDir/<name> a regular
\* file equal to V's binary, and writes no file outside binDir
C27_ActivationReplacesEntry ==
    Activated
    => \A b \in AllBins :
         /\ Ships(b) => binDir[b] = File(versions[key][b].content, TRUE)
         /\ localTarget[b].kind = "file" => localTarget[b].content = Built(LocalTree, b)

-----------------------------------------------------------------------------
(* The version label of a source build: install_from_source                *)

\* the source-build requests: a repository, and a commit, a pull request or
\* a branch
SourceRequests ==
    {a \in {[BaseArgs EXCEPT !.repo = r, !.branch = b, !.pr = q, !.commit = c] :
               r \in {<<>>, <<OtherRepo>>, <<<<"someone", "other">>>>,
                      <<<<"else", "fork">>>>},
               b \in {<<>>, <<<<"master">>>>, <<<<"feat", "/", "x">>>>,
                      <<<<"feat", "-", "x">>>>},
               q \in {<<>>, <<"7">>, <<"8">>},
               c \in {<<>>, <<"abc123">>, <<"def456">>}} :
        Classify(a) = "SourceBuild"}

\* the labels and the version directories of the two requests
label_pair ==
    /\ pair.labels = <<>>
    /\ pair' = [pair EXCEPT
                  !.labels = <<source_version(pair.first), source_version(pair.second)>>,
                  !.dirs = <<version_dir(pair.first.network, source_version(pair.first)),
                             version_dir(pair.second.network,
                                         source_version(pair.second))>>]
    /\ UNCHANGED primary
    /\ UNCHANGED <<upd, zip, env, store, selfupd>>

InitSource ==
    /\ Fresh("idle")
    /\ upd = NoUpdate
    /\ zip = NoZip
    /\ env = NoEnv
    /\ store = NoStore
    /\ selfupd = NoSelfUpdate
    /\ \E first \in SourceRequests, second \in SourceRequests :
         pair = [NoPair EXCEPT !.first = first, !.second = second]

NextSource == label_pair

SpecSource == InitSource /\ [][NextSource]_vars

\* what a request asks to build: the commit if given, else the pull request,
\* else the branch (master when none is named)
Asked(a) ==
    IF a.commit # <<>> THEN <<"commit", a.commit[1]>>
    ELSE IF a.pr # <<>> THEN <<"pr", a.pr[1]>>
    ELSE <<"branch", IF a.branch # <<>> THEN a.branch[1] ELSE <<"master">>>>

\* C28: two source-build requests that differ in the repository, or in what
\* they ask to build (the commit if given, else the pull request, else the
\* branch), get different labels and different version directories
C28_LabelIdentifiesRequest ==
    (/\ pair.labels # <<>>
     /\ \/ target_repo(pair.first) # target_repo(pair.second)
        \/ Asked(pair.first) # Asked(pair.second))
    => /\ pair.labels[1] # pair.labels[2]
       /\ pair.dirs[1] # pair.dirs[2]

====
